---- MODULE Spec2Model ----
(***************************************************************************)
(* Model of the ewoc_dag object-store transfer engine (EOBucket), of the   *)
(* bucket handles built on it and of the AWS-to-SAFE reconstruction.       *)
(* Strings are sequences of one-character strings, paths are sequences of  *)
(* path segments, as pathlib keeps them.                                   *)
(***************************************************************************)
EXTENDS Integers, Sequences, FiniteSets, TLC

(***************************************************************************)
(* Bounds of the model                                                     *)
(***************************************************************************)
MaxTail == 2
MaxListed == 3
MaxPages == 2
MaxCalls == 2
MaxEntries == 3
MaxFileSize == 2
MaxCtors == 2
MaxEvents == 4
MaxMoves == 2
MaxOmitted == 1
MaxMissing == 1
MaxFolders == 2
MaxChanged == 1
MaxTileLen == 5
MaxCkPages == 2
MaxPdCalls == 2
MaxPdFolders == 2
MaxPdChanges == 1
MaxTiles == 2
MaxCcKeys == 2

(***************************************************************************)
(* Strings                                                                 *)
(***************************************************************************)
Slash == "/"

\* the characters of the part of a key that follows the prefix
TailChars == {"b", "/"}

\* code point order of the characters used in keys and file names
Ord(c) == CASE c = "." -> 46 [] c = "/" -> 47 [] c = "0" -> 48
            [] c = "1" -> 49 [] c = "7" -> 55 [] c = "8" -> 56
            [] c = "9" -> 57 [] c = "a" -> 97 [] c = "b" -> 98
            [] c = "t" -> 116 [] OTHER -> 120

RECURSIVE StrLess(_, _)
StrLess(s, t) ==
    IF t = <<>> THEN FALSE
    ELSE IF s = <<>> THEN TRUE
    ELSE IF Head(s) = Head(t) THEN StrLess(Tail(s), Tail(t))
    ELSE Ord(Head(s)) < Ord(Head(t))

\* the characters m..n of s, the empty string when n < m (Python's s[m-1:n])
Sub(s, m, n) == [i \in 1..(n - m + 1) |-> s[m + i - 1]]

StartsWith(s, p) == Len(p) <= Len(s) /\ Sub(s, 1, Len(p)) = p

EndsWith(s, p) ==
    Len(p) <= Len(s) /\ Sub(s, Len(s) - Len(p) + 1, Len(s)) = p

\* Python's `t in s` on strings
Contains(s, t) ==
    \E i \in 0..(Len(s) - Len(t)) : Sub(s, i + 1, i + Len(t)) = t

\* index of the first "/" of s, 0 when there is none
FirstSlash(s) ==
    IF \E i \in 1..Len(s) : s[i] = Slash
    THEN CHOOSE i \in 1..Len(s) :
            s[i] = Slash /\ \A j \in 1..(i - 1) : s[j] # Slash
    ELSE 0

\* Python's s.split(sep="/", maxsplit=n) for n >= 0
RECURSIVE SplitMax(_, _)
SplitMax(s, n) ==
    IF n = 0 \/ FirstSlash(s) = 0 THEN <<s>>
    ELSE <<Sub(s, 1, FirstSlash(s) - 1)>>
            \o SplitMax(Sub(s, FirstSlash(s) + 1, Len(s)), n - 1)

\* Python's s.split("/")
Split(s) == SplitMax(s, Len(s))

Last(q) == q[Len(q)]

Front(q) == Sub(q, 1, Len(q) - 1)

RECURSIVE Flatten(_)
Flatten(qq) == IF qq = <<>> THEN <<>> ELSE Head(qq) \o Flatten(Tail(qq))

Range(q) == {q[i] : i \in 1..Len(q)}

\* all sequences over S of length 0..n
SeqsUpTo(S, n) == UNION {[1..k -> S] : k \in 0..n}

(***************************************************************************)
(* Local file system: pathlib paths                                        *)
(***************************************************************************)
\* the segment that stands for the root of an absolute path
RootSeg == <<Slash>>

RECURSIVE NonEmpty(_)
NonEmpty(q) ==
    IF q = <<>> THEN <<>>
    ELSE IF Head(q) = <<>> THEN NonEmpty(Tail(q))
    ELSE <<Head(q)>> \o NonEmpty(Tail(q))

\* pathlib's  dir / name : an absolute name replaces dir, empty segments go
PathJoin(dir, name) ==
    IF name # <<>> /\ Head(name) = Slash
    THEN <<RootSeg>> \o NonEmpty(Split(name))
    ELSE dir \o NonEmpty(Split(name))

Parent(p) == IF Len(p) <= 1 THEN p ELSE Front(p)

\* p and all its ancestors
Ancestors(p) == {Sub(p, 1, k) : k \in 1..Len(p)}

\* Path.exists(): a file or a directory is there
Exists(fl, dr, p) == p \in DOMAIN fl \/ p \in dr

\* Path.mkdir(parents=True, exist_ok=True) succeeds unless a file is in the way
MkdirOk(fl, p) == \A a \in Ancestors(p) : a \notin DOMAIN fl

MkdirParents(dr, p) == dr \cup Ancestors(p)

(***************************************************************************)
(* EOBucket._download_prd                                                  *)
(***************************************************************************)
VARIABLES
    store,        \* the listing of the bucket: the pages the store answers with
    bucket_name,  \* EOBucket._bucket_name
    prd_prefix,   \* argument of _download_prd
    out_dirpath,  \* argument of _download_prd
    request_payer,\* argument of _download_prd
    prd_items,    \* argument of _download_prd: [isNone, terms]
    kwargs,       \* kwargs["ContinuationToken"], 0 when the key is not set
    response,     \* the last list_objects_v2 response
    idx,          \* position of the for loop in response["Contents"]
    pc,           \* position of the call
    exc,          \* the exception the call raised
    files,        \* local files: path -> key the content was fetched from
    dirs,         \* local directories
    requests,     \* list_objects_v2 requests of the current call
    responses,    \* list_objects_v2 responses of the current call
    processed,    \* keys the for loop went through in the current call
    gets,         \* download_file requests of the current call
    calls,        \* number of calls started
    prev_ok,      \* the previous call returned without error
    prev_files    \* files when the current call started

dlVars == <<store, bucket_name, prd_prefix, out_dirpath, request_payer,
            prd_items, kwargs,
            response, idx, pc, exc, files, dirs, requests, responses,
            processed, gets, calls, prev_ok, prev_files>>

NoResponse == [hasContents |-> FALSE, Contents |-> <<>>,
               hasNext |-> FALSE, NextContinuationToken |-> 0]

NoExc == [type |-> "None"]

\* what the store answers to list_objects_v2 with the given continuation
\* token: a page without key carries no "Contents", the last page no token
StoreResponse(st, token) ==
    LET i == IF token = 0 THEN 1 ELSE token
    IN  [hasContents |-> st[i] # <<>>,
         Contents |-> st[i],
         hasNext |-> i < Len(st),
         NextContinuationToken |-> IF i < Len(st) THEN i + 1 ELSE 0]

EOBucketException(p, r, b) ==
    [type |-> "EOBucketException", prd_prefix |-> p, response |-> r,
     bucket_name |-> b]

\* lines 293-297: extra_args is None unless the requester pays
ExtraArgs(payer) == IF payer THEN "requester" ELSE "None"

\* the filter is ignored
IsSelected_all(items, key) == TRUE

IsSelected(items, key) ==
    items.isNone \/ \E i \in 1..Len(items.terms) : Contains(key, items.terms[i])

IsFile(key) == ~EndsWith(key, <<Slash>>)

\* one split too many
Filename_off(key, prefix) == Last(SplitMax(key, Len(Split(prefix))))

Filename(key, prefix) == Last(SplitMax(key, Len(Split(prefix)) - 1))

OutputFilepath(dir, filename) == PathJoin(dir, filename)

\* the destination is never looked at
NeedsDownload_always(fl, dr, p) == TRUE

\* line 322: the transfer happens only when the destination is not there
NeedsDownload(fl, dr, p) == ~Exists(fl, dr, p)

\* a missing field read as an empty list, response.get("Contents", [])
ContentsMissing_empty(r) == FALSE

\* line 303: response["Contents"] raises KeyError when the field is missing
ContentsMissing(r) == ~r.hasContents

\* lines 349-353
NextKwargs(r) == r.NextContinuationToken

\* the loop stops after the first page
HasNextPage_never(r) == FALSE

\* the loop goes on after the last page
HasNextPage_always(r) == TRUE

HasNextPage(r) == r.hasNext

DlCall ==
    /\ pc \in {"idle", "done", "raised"}
    /\ calls < MaxCalls
    /\ calls' = calls + 1
    /\ prev_ok' = (pc = "done")
    /\ prev_files' = files
    /\ kwargs' = 0
    /\ response' = NoResponse
    /\ idx' = 0
    /\ exc' = NoExc
    /\ requests' = <<>>
    /\ responses' = <<>>
    /\ processed' = <<>>
    /\ gets' = <<>>
    /\ pc' = "list"
    /\ UNCHANGED <<store, bucket_name, prd_prefix, out_dirpath, request_payer,
                   prd_items,
                   files, dirs>>

DlList ==
    /\ pc = "list"
    /\ response' = StoreResponse(store, kwargs)
    /\ requests' = Append(requests,
          [Bucket |-> bucket_name, Prefix |-> prd_prefix,
           RequestPayer |-> request_payer, token |-> kwargs])
    /\ responses' = Append(responses, response')
    /\ idx' = 1
    /\ pc' = "iter"
    /\ UNCHANGED <<store, bucket_name, prd_prefix, out_dirpath, request_payer,
                   prd_items,
                   kwargs, exc, files, dirs, processed, gets, calls, prev_ok,
                   prev_files>>

DlNoContents ==
    /\ pc = "iter"
    /\ ContentsMissing(response)
    /\ exc' = EOBucketException(prd_prefix, response, bucket_name)
    /\ pc' = "raised"
    /\ UNCHANGED <<store, bucket_name, prd_prefix, out_dirpath, request_payer,
                   prd_items,
                   kwargs, response, idx, files, dirs, requests, responses,
                   processed, gets, calls, prev_ok, prev_files>>

\* one turn of the for loop that transfers nothing
DlSkip ==
    /\ pc = "iter"
    /\ ~ContentsMissing(response)
    /\ idx <= Len(response.Contents)
    /\ LET key == response.Contents[idx]
           path == OutputFilepath(out_dirpath, Filename(key, prd_prefix))
       IN  /\ processed' = Append(processed, key)
           /\ IF IsSelected(prd_items, key) /\ IsFile(key)
              THEN IF MkdirOk(files, Parent(path))
                   THEN /\ ~NeedsDownload(files, MkdirParents(dirs, Parent(path)), path)
                        /\ dirs' = MkdirParents(dirs, Parent(path))
                        /\ idx' = idx + 1
                        /\ UNCHANGED <<pc, exc>>
                   ELSE /\ exc' = [type |-> "FileExistsError"]
                        /\ pc' = "raised"
                        /\ UNCHANGED <<dirs, idx>>
              ELSE /\ idx' = idx + 1
                   /\ UNCHANGED <<dirs, pc, exc>>
    /\ UNCHANGED <<store, bucket_name, prd_prefix, out_dirpath, request_payer,
                   prd_items,
                   kwargs, response, files, requests, responses, gets, calls,
                   prev_ok, prev_files>>

\* one turn of the for loop that calls download_file, which may fail
DlGet ==
    /\ pc = "iter"
    /\ ~ContentsMissing(response)
    /\ idx <= Len(response.Contents)
    /\ LET key == response.Contents[idx]
           path == OutputFilepath(out_dirpath, Filename(key, prd_prefix))
       IN  /\ IsSelected(prd_items, key) /\ IsFile(key)
           /\ MkdirOk(files, Parent(path))
           /\ NeedsDownload(files, MkdirParents(dirs, Parent(path)), path)
           /\ processed' = Append(processed, key)
           /\ dirs' = MkdirParents(dirs, Parent(path))
           /\ gets' = Append(gets,
                 [Bucket |-> bucket_name, Key |-> key, Filename |-> path,
                  ExtraArgs |-> ExtraArgs(request_payer)])
           /\ \E ok \in BOOLEAN :
                IF ok
                THEN /\ files' = [p \in DOMAIN files \cup {path} |->
                                    IF p = path THEN key ELSE files[p]]
                     /\ idx' = idx + 1
                     /\ UNCHANGED <<pc, exc>>
                ELSE /\ exc' = [type |-> "ClientError"]
                     /\ pc' = "raised"
                     /\ UNCHANGED <<files, idx>>
    /\ UNCHANGED <<store, bucket_name, prd_prefix, out_dirpath, request_payer,
                   prd_items,
                   kwargs, response, requests, responses, calls, prev_ok,
                   prev_files>>

DlNextPage ==
    /\ pc = "iter"
    /\ ~ContentsMissing(response)
    /\ idx > Len(response.Contents)
    /\ HasNextPage(response)
    /\ kwargs' = NextKwargs(response)
    /\ pc' = "list"
    /\ UNCHANGED <<store, bucket_name, prd_prefix, out_dirpath, request_payer,
                   prd_items,
                   response, idx, exc, files, dirs, requests, responses,
                   processed, gets, calls, prev_ok, prev_files>>

DlReturn ==
    /\ pc = "iter"
    /\ ~ContentsMissing(response)
    /\ idx > Len(response.Contents)
    /\ ~HasNextPage(response)
    /\ pc' = "done"
    /\ UNCHANGED <<store, bucket_name, prd_prefix, out_dirpath, request_payer,
                   prd_items,
                   kwargs, response, idx, exc, files, dirs, requests,
                   responses, processed, gets, calls, prev_ok, prev_files>>

\* the inputs of the download model
Prefixes == {<<"a", "/">>, <<"a", "/", "b">>, <<"b">>}

ItemFilters ==
    { [isNone |-> TRUE, terms |-> <<>>],
      [isNone |-> FALSE, terms |-> <<>>],
      [isNone |-> FALSE, terms |-> << <<"b", "b">> >>],
      [isNone |-> FALSE, terms |-> << <<"/", "/">>, <<"/", "b">> >>] }

KeysUnder(prefix) == {prefix \o t : t \in SeqsUpTo(TailChars, MaxTail)}

\* listings in the store's order (ascending, no key twice)
Listings(prefix) ==
    {l \in SeqsUpTo(KeysUnder(prefix), MaxListed) :
        \A i \in 1..(Len(l) - 1) : StrLess(l[i], l[i + 1])}

RECURSIVE Cut(_, _)
\* the listing l cut into pages after the positions of cuts (ascending)
Cut(l, cuts) ==
    IF cuts = <<>> THEN <<l>>
    ELSE <<Sub(l, 1, Head(cuts))>>
            \o Cut(Sub(l, Head(cuts) + 1, Len(l)),
                   [i \in 1..(Len(cuts) - 1) |-> cuts[i + 1] - Head(cuts)])

CutsOf(l) ==
    {c \in SeqsUpTo(0..Len(l), MaxPages - 1) :
        \A i \in 1..(Len(c) - 1) : c[i] <= c[i + 1]}

Stores(prefix) ==
    UNION {{Cut(l, c) : c \in CutsOf(l)} : l \in Listings(prefix)}

OutDir == << <<"o">> >>

\* content of a file that was there before the first call
OldContent == <<"old">>

\* the destination directory is empty or holds a file named b
InitialFiles == {<< >>, [p \in {OutDir \o << <<"b">> >>} |-> OldContent]}

\* no call of _download_prd has started
DlIdle ==
    /\ out_dirpath = OutDir
    /\ kwargs = 0
    /\ response = NoResponse
    /\ idx = 0
    /\ pc = "idle"
    /\ exc = NoExc
    /\ dirs = {<<RootSeg>>, OutDir}
    /\ requests = <<>>
    /\ responses = <<>>
    /\ processed = <<>>
    /\ gets = <<>>
    /\ calls = 0
    /\ prev_ok = FALSE
    /\ prev_files = << >>

DlInit ==
    /\ prd_prefix \in Prefixes
    /\ store \in Stores(prd_prefix)
    /\ prd_items \in ItemFilters
    /\ request_payer \in BOOLEAN
    /\ bucket_name = "ewoc-prd"
    /\ files \in InitialFiles
    /\ DlIdle

\* the download engine is not used
DlQuiet ==
    /\ prd_prefix = <<>>
    /\ store = << <<>> >>
    /\ prd_items = [isNone |-> TRUE, terms |-> <<>>]
    /\ request_payer = FALSE
    /\ bucket_name = "ewoc-ard"
    /\ files = << >>
    /\ DlIdle

DlNext ==
    \/ DlCall
    \/ DlList
    \/ DlNoContents
    \/ DlSkip
    \/ DlGet
    \/ DlNextPage
    \/ DlReturn

(***************************************************************************)
(* EOBucket._upload_file and EOBucket._upload_prd                          *)
(***************************************************************************)
VARIABLES
    local_tree,          \* content of prd_dirpath: relative path -> [isDir, size]
    object_prefix,       \* argument of _upload_prd
    file_suffix,         \* argument of _upload_prd: [isNone, s]
    paths,               \* _upload_prd: the sorted result of rglob
    up_i,                \* position of the for loop in paths
    nb_filepath,         \* _upload_prd
    upload_object_size,  \* _upload_prd
    key,                 \* _upload_prd: key of the last file, <<>> while unbound
    puts,                \* upload_file requests: [Filename, Bucket, Key, ok]
    up_pc,               \* position of the call
    up_exc,              \* the exception the call raised
    up_result,           \* the value the call returned
    up_op                \* the operation called: "prd" (_upload_prd) or "file"

upVars == <<local_tree, object_prefix, file_suffix, paths, up_i, nb_filepath,
            upload_object_size, key, puts, up_pc, up_exc, up_result, up_op>>

\* comparison of pathlib paths: part by part
RECURSIVE PathLess(_, _)
PathLess(p, q) ==
    IF q = <<>> THEN FALSE
    ELSE IF p = <<>> THEN TRUE
    ELSE IF Head(p) = Head(q) THEN PathLess(Tail(p), Tail(q))
    ELSE StrLess(Head(p), Head(q))

RECURSIVE JoinSlash(_)
\* "/".join(parts), also str() of a relative path
JoinSlash(parts) ==
    IF parts = <<>> THEN <<>>
    ELSE IF Len(parts) = 1 THEN Head(parts)
    ELSE Head(parts) \o <<Slash>> \o JoinSlash(Tail(parts))

\* prd_dirpath.rglob("*") or prd_dirpath.rglob("*" + file_suffix): every
\* entry below the directory, files and directories, whose name matches
Rglob(tree, suffix) ==
    {p \in DOMAIN tree : suffix.isNone \/ EndsWith(Last(p), suffix.s)}

RECURSIVE Descending(_)
\* the paths in descending order
Descending(S) ==
    IF S = {} THEN <<>>
    ELSE LET m == CHOOSE x \in S : \A y \in S \ {x} : PathLess(y, x)
         IN  <<m>> \o Descending(S \ {m})

RECURSIVE Sorted(_)
\* sorted(...) of a set of paths
Sorted(S) ==
    IF S = {} THEN <<>>
    ELSE LET m == CHOOSE x \in S : \A y \in S \ {x} : PathLess(x, y)
         IN  <<m>> \o Sorted(S \ {m})

\* line 406
ObjectKey(prefix, relpath) == prefix \o <<Slash>> \o JoinSlash(relpath)

UploadFileError(filepath, bucket, k) ==
    [type |-> "UploadFileError", filepath |-> filepath,
     bucket_name |-> bucket, key |-> k]

UploadProductError(err, dirpath, prefix) ==
    [type |-> "UploadProductError", prd_dirpath |-> dirpath,
     object_prefix |-> prefix, cause |-> err]

\* directories are counted like files
NbAfterDir_keep(nb) == nb

\* line 403
NbAfterDir(nb) == nb - 1

\* lines 421-425
UploadResult(nb, size, bucket, k) ==
    <<nb, size, <<"s3://", bucket, JoinSlash(Front(Split(k)))>> >>

PrdDirpath == << <<"d">> >>

UpNames == {<<"a">>, <<"a", ".", "t">>, <<"b", ".", "t">>}

UpPaths == {<<n>> : n \in UpNames} \cup {<<n, m>> : n \in UpNames, m \in UpNames}

UpCall ==
    /\ up_pc = "idle"
    /\ paths' = Sorted(Rglob(local_tree, file_suffix))
    /\ upload_object_size' = 0
    /\ nb_filepath' = Len(paths')
    /\ up_i' = 1
    /\ up_pc' = "loop"
    /\ up_op' = "prd"
    /\ UNCHANGED <<local_tree, object_prefix, file_suffix, key, puts, up_exc,
                   up_result>>

\* a directory of paths is not uploaded
UpDir ==
    /\ up_pc = "loop"
    /\ up_i <= Len(paths)
    /\ paths[up_i] \in DOMAIN local_tree
    /\ local_tree[paths[up_i]].isDir
    /\ nb_filepath' = NbAfterDir(nb_filepath)
    /\ up_i' = up_i + 1
    /\ UNCHANGED <<local_tree, object_prefix, file_suffix, paths,
                   upload_object_size, key, puts, up_pc, up_exc, up_result, up_op>>

\* _upload_file on a file of paths that is still there
UpFile ==
    /\ up_pc = "loop"
    /\ up_i <= Len(paths)
    /\ paths[up_i] \in DOMAIN local_tree
    /\ ~local_tree[paths[up_i]].isDir
    /\ LET filepath == PrdDirpath \o paths[up_i]
           k == ObjectKey(object_prefix, paths[up_i])
       IN  /\ key' = k
           /\ \E ok \in BOOLEAN :
                /\ puts' = Append(puts, [Filename |-> filepath,
                              Bucket |-> bucket_name, Key |-> k, ok |-> ok])
                /\ IF ok
                   THEN /\ upload_object_size' =
                              upload_object_size + local_tree[paths[up_i]].size
                        /\ up_i' = up_i + 1
                        /\ UNCHANGED <<up_pc, up_exc>>
                   ELSE /\ up_exc' = UploadProductError(
                                UploadFileError(filepath, bucket_name, k),
                                PrdDirpath, object_prefix)
                        /\ up_pc' = "raised"
                        /\ UNCHANGED <<upload_object_size, up_i>>
    /\ UNCHANGED <<local_tree, object_prefix, file_suffix, paths, nb_filepath,
                   up_result, up_op>>

\* upload_ard_raster: _upload_file on one path, there or not, and its key
UpRaster ==
    /\ up_pc = "idle"
    /\ up_op' = "file"
    /\ \E p \in UpPaths :
          /\ p \in DOMAIN local_tree => ~local_tree[p].isDir
          /\ LET filepath == PrdDirpath \o p
                 k == object_prefix
             IN  IF p \notin DOMAIN local_tree
                 THEN /\ up_exc' = [type |-> "FileNotFoundError"]
                      /\ up_pc' = "raised"
                      /\ UNCHANGED <<puts, up_result>>
                 ELSE \E ok \in BOOLEAN :
                      /\ puts' = Append(puts, [Filename |-> filepath,
                                    Bucket |-> bucket_name, Key |-> k, ok |-> ok])
                      /\ IF ok
                         THEN /\ up_result' = <<local_tree[p].size>>
                              /\ up_pc' = "done"
                              /\ UNCHANGED up_exc
                         ELSE /\ up_exc' = UploadFileError(filepath, bucket_name, k)
                              /\ up_pc' = "raised"
                              /\ UNCHANGED up_result
    /\ UNCHANGED <<local_tree, object_prefix, file_suffix, paths, up_i,
                   nb_filepath, upload_object_size, key>>

\* lines 412-425; key is unbound when the loop uploaded nothing
UpReturn ==
    /\ up_pc = "loop"
    /\ up_i > Len(paths)
    /\ IF key = <<>>
       THEN /\ up_exc' = [type |-> "UnboundLocalError"]
            /\ up_pc' = "raised"
            /\ UNCHANGED up_result
       ELSE /\ up_result' = UploadResult(nb_filepath, upload_object_size,
                                         bucket_name, key)
            /\ up_pc' = "done"
            /\ UNCHANGED up_exc
    /\ UNCHANGED <<local_tree, object_prefix, file_suffix, paths, up_i,
                   nb_filepath, upload_object_size, key, puts, up_op>>

\* no call of _upload_prd has started
UpIdle ==
    /\ paths = <<>>
    /\ up_i = 0
    /\ nb_filepath = 0
    /\ upload_object_size = 0
    /\ key = <<>>
    /\ puts = <<>>
    /\ up_pc = "idle"
    /\ up_exc = NoExc
    /\ up_result = <<>>
    /\ up_op = "none"

\* the inputs of the upload model
\* a directory tree: the parent of every entry is a directory of the tree
IsTree(t) ==
    \A p \in DOMAIN t :
        /\ Len(p) > 1 => (Front(p) \in DOMAIN t /\ t[Front(p)].isDir)
        /\ t[p].isDir => t[p].size = 0

EntrySets ==
    {Range(q) : q \in {qq \in SeqsUpTo(UpPaths, MaxEntries) :
                          \A i \in 1..(Len(qq) - 1) : PathLess(qq[i], qq[i + 1])}}

Trees ==
    UNION {{t \in [E -> [isDir : BOOLEAN, size : 0..MaxFileSize]] : IsTree(t)} :
             E \in EntrySets}

Suffixes == {[isNone |-> TRUE, s |-> <<>>], [isNone |-> FALSE, s |-> <<".", "t">>]}

ObjectPrefixes == {<<"p">>, <<"p", "/", "q">>}

UpInit ==
    /\ local_tree \in Trees
    /\ object_prefix \in ObjectPrefixes
    /\ file_suffix \in Suffixes
    /\ UpIdle

\* the upload engine is not used
UpQuiet ==
    /\ local_tree = << >>
    /\ object_prefix = <<>>
    /\ file_suffix = [isNone |-> TRUE, s |-> <<>>]
    /\ UpIdle

UpNext ==
    \/ UpCall
    \/ UpDir
    \/ UpFile
    \/ UpRaster
    \/ UpReturn

(***************************************************************************)
(* Bucket handles: EWOCBucket, CreodiasBucket, AWSEOBucket constructors    *)
(***************************************************************************)
VARIABLES
    env_provider,  \* os.getenv("EWOC_CLOUD_PROVIDER", "aws")
    env_dev_mode,  \* strtobool(os.getenv("EWOC_DEV_MODE", "False"))
    handles,       \* the bucket objects the constructors returned
    ctors,         \* the constructor calls: [id, cls, head, result]
    events         \* the requests the S3 clients sent: [id, op, ok]; ok tells
                   \* whether head_bucket returned

bkVars == <<env_provider, env_dev_mode, handles, ctors, events>>

EwocClasses == {"EWOCAuxDataBucket", "EWOCARDBucket", "EWOCPRDBucket"}

PrivateClasses == EwocClasses \cup {"CreodiasBucket"}

\* AWSEOBucket._SUPPORTED_BUCKET
SupportedBucket ==
    {"sentinel-s1-l1c", "sentinel-s2-l1c", "sentinel-s2-l2a", "sentinel-cogs",
     "usgs-landsat", "copernicus-dem-30m", "copernicus-dem-90m"}

\* the bucket a class binds to; dev is the resolved ewoc_dev_mode
BucketOf(cls, dev) ==
    CASE cls = "EWOCAuxDataBucket" -> "ewoc-aux-data"
      [] cls = "EWOCARDBucket" -> IF dev THEN "ewoc-ard-dev" ELSE "ewoc-ard"
      [] cls = "EWOCPRDBucket" -> IF dev THEN "ewoc-prd-dev" ELSE "ewoc-prd"
      [] OTHER -> "DIAS"

\* the requests the public methods of a class send
OpsOf(cls) ==
    CASE cls = "EWOCAuxDataBucket" -> {"list", "download"}
      [] cls = "EWOCARDBucket" -> {"list", "upload"}
      [] cls = "EWOCPRDBucket" -> {"list", "download", "upload"}
      [] OTHER -> {"list", "download"}

\* what head_bucket does: it returns, or raises ClientError with a code
HeadOutcomes == {"ok", "404", "403", "500"}

\* the check is skipped
CheckBucket_skip(outcome) == TRUE

\* EOBucket._check_bucket: False on ClientError
CheckBucket(outcome) == outcome = "ok"

\* EWOCBucket.__init__ lines 66-76
ProviderSupported(provider) == provider \in {"creodias", "aws"}

\* EWOCARDBucket.__init__ / EWOCPRDBucket.__init__: None reads the environment
ResolveDevMode(arg, env) == IF arg = "None" THEN env ELSE arg = "True"

NextId == Len(ctors) + 1

\* EWOCAuxDataBucket(), EWOCARDBucket(dev), EWOCPRDBucket(dev)
NewEWOCBucket ==
    /\ Len(ctors) < MaxCtors
    /\ \E cls \in EwocClasses, arg \in {"None", "True", "False"},
          outcome \in HeadOutcomes :
         LET name == BucketOf(cls, ResolveDevMode(arg, env_dev_mode))
         IN  IF ~ProviderSupported(env_provider)
             THEN /\ ctors' = Append(ctors, [id |-> NextId, cls |-> cls,
                         bucket |-> name, head |-> "none",
                         result |-> "ValueError"])
                  /\ UNCHANGED <<handles, events>>
             ELSE /\ events' = Append(events,
                         [id |-> NextId, op |-> "head_bucket",
                          ok |-> outcome = "ok"])
                  /\ IF CheckBucket(outcome)
                     THEN /\ handles' = handles \cup
                                {[id |-> NextId, cls |-> cls, bucket |-> name]}
                          /\ ctors' = Append(ctors, [id |-> NextId,
                                cls |-> cls, bucket |-> name,
                                head |-> outcome, result |-> "handle"])
                     ELSE /\ ctors' = Append(ctors, [id |-> NextId,
                                cls |-> cls, bucket |-> name,
                                head |-> outcome, result |-> "ValueError"])
                          /\ UNCHANGED handles
    /\ UNCHANGED <<env_provider, env_dev_mode>>

\* CreodiasBucket()
NewCreodiasBucket ==
    /\ Len(ctors) < MaxCtors
    /\ \E outcome \in HeadOutcomes :
         /\ events' = Append(events,
               [id |-> NextId, op |-> "head_bucket", ok |-> outcome = "ok"])
         /\ IF CheckBucket(outcome)
            THEN /\ handles' = handles \cup
                       {[id |-> NextId, cls |-> "CreodiasBucket",
                         bucket |-> "DIAS"]}
                 /\ ctors' = Append(ctors, [id |-> NextId,
                       cls |-> "CreodiasBucket", bucket |-> "DIAS",
                       head |-> outcome, result |-> "handle"])
            ELSE /\ ctors' = Append(ctors, [id |-> NextId,
                       cls |-> "CreodiasBucket", bucket |-> "DIAS",
                       head |-> outcome, result |-> "ValueError"])
                 /\ UNCHANGED handles
    /\ UNCHANGED <<env_provider, env_dev_mode>>

\* AWSEOBucket(arn_suffix): no request is sent
NewAWSBucket ==
    /\ Len(ctors) < MaxCtors
    /\ \E arn_suffix \in {"sentinel-s1-l1c", "usgs-landsat", "my-bucket"} :
         IF arn_suffix \in SupportedBucket
         THEN /\ handles' = handles \cup
                    {[id |-> NextId, cls |-> "AWSEOBucket",
                      bucket |-> arn_suffix]}
              /\ ctors' = Append(ctors, [id |-> NextId, cls |-> "AWSEOBucket",
                    bucket |-> arn_suffix, head |-> "none",
                    result |-> "handle"])
         ELSE /\ ctors' = Append(ctors, [id |-> NextId, cls |-> "AWSEOBucket",
                    bucket |-> arn_suffix, head |-> "none",
                    result |-> "ValueError"])
              /\ UNCHANGED handles
    /\ UNCHANGED <<env_provider, env_dev_mode, events>>

\* the bucket AWSCopDEMBucket.__init__ passes on; "unset" when neither
\* branch of lines 458-463 is taken and _bucket_name is never assigned
CopDEMBucketOf(resolution) ==
    CASE resolution = "1s" -> "copernicus-dem-30m"
      [] resolution = "3s" -> "copernicus-dem-90m"
      [] OTHER -> "unset"

\* AWSCopDEMBucket(resolution): line 465 builds a ValueError and drops it,
\* the constructor goes on to line 467 and returns the object
NewAWSCopDEMBucket ==
    /\ Len(ctors) < MaxCtors
    /\ \E resolution \in {"1s", "3s", "2s"} :
         /\ handles' = handles \cup
               {[id |-> NextId, cls |-> "AWSCopDEMBucket",
                 bucket |-> CopDEMBucketOf(resolution)]}
         /\ ctors' = Append(ctors, [id |-> NextId, cls |-> "AWSCopDEMBucket",
               bucket |-> CopDEMBucketOf(resolution), head |-> "none",
               result |-> "handle"])
    /\ UNCHANGED <<env_provider, env_dev_mode, events>>

\* a public method of a returned handle sends a request; on an object
\* without _s3_client the method raises AttributeError before it
UseHandle ==
    /\ Len(events) < MaxEvents
    /\ \E h \in {hh \in handles : hh.bucket # "unset"} :
         \E op \in OpsOf(h.cls) :
            events' = Append(events, [id |-> h.id, op |-> op, ok |-> TRUE])
    /\ UNCHANGED <<env_provider, env_dev_mode, handles, ctors>>

BkIdle ==
    /\ handles = {}
    /\ ctors = <<>>
    /\ events = <<>>

BkInit ==
    /\ env_provider \in {"aws", "creodias", "gcp"}
    /\ env_dev_mode \in BOOLEAN
    /\ BkIdle

\* no handle is built
BkQuiet ==
    /\ env_provider = "aws"
    /\ env_dev_mode = FALSE
    /\ BkIdle

BkNext ==
    \/ NewEWOCBucket
    \/ NewCreodiasBucket
    \/ NewAWSBucket
    \/ NewAWSCopDEMBucket
    \/ UseHandle

(***************************************************************************)
(* SAFE reconstruction: aws_to_safe, aws_s1_to_safe, aws_s2_l1c_to_safe    *)
(* and the download_prd methods that call them.  A file name is a sequence *)
(* of tokens, a path a sequence of names, relative to the flat product     *)
(* directory (out_dirpath) or to the SAFE directory (out_safe_dirpath).    *)
(***************************************************************************)
VARIABLES
    prd_family,    \* what the product id is: "S1", "S2L1C" or "other"
    safe_format,   \* argument of download_prd
    sf_op,         \* the function called
    sidecar,       \* what productInfo.json holds when there: "ok" or "corrupt"
    filename_map,  \* prd_info["filenameMap"]: sequence of [target, source]
    manifest,      \* tile/manifest.safe: the hrefs of its fileLocation elements
    flat_exists,   \* out_dirpath is there
    flat_files,    \* the files below out_dirpath
    flat_init,     \* the files below out_dirpath when the call started
    safe_init,     \* out_safe_dirpath was there when the call started
    safe_exists,   \* out_safe_dirpath is there
    safe_files,    \* the files below out_safe_dirpath
    safe_dirs,     \* the directories below out_safe_dirpath
    sf_pc,         \* position of the call
    sf_i,          \* position of the loop of aws_s1_to_safe
    sf_exc,        \* the exception the call raised
    sf_result,     \* the directory the call returned
    s2             \* local variables of aws_s2_l1c_to_safe

sfVars == <<prd_family, safe_format, sf_op, sidecar, filename_map, manifest,
            flat_exists, flat_files, flat_init, safe_init, safe_exists,
            safe_files, safe_dirs, sf_pc, sf_i, sf_exc, sf_result, s2>>

\* a name made of one token
Nm(t) == <<t>>

SidecarName == Nm("productInfo.json")

\* the directories a mkdir(parents=True) of the parent of path p makes
ParentDirs(p) == {Sub(p, 1, k) : k \in 1..(Len(p) - 1)}

\* line 60 of safe_format.py
SidecarExists(fl) == <<SidecarName>> \in fl

\* line 63: out_safe_dirpath.rmdir() of the empty directory
RemoveSafeDir(exists) == FALSE

\* aws.py line 128: shutil.rmtree(out_dirpath) in the except clause
FlatAfterConversionError(exists) == FALSE

\* lines 47-57 of aws_to_safe, after AWSS1Bucket.download_prd (aws.py
\* 124-126) or AWSS2L1CBucket.download_prd (aws.py 290-294) when they run it
SfCall ==
    /\ sf_pc = "idle"
    /\ \E op \in {"aws_to_safe", "AWSS1Bucket.download_prd",
                 "AWSS2L1CBucket.download_prd"} :
         /\ op = "AWSS1Bucket.download_prd" => prd_family = "S1"
         /\ op = "AWSS2L1CBucket.download_prd" => prd_family = "S2L1C"
         /\ sf_op' = op
         /\ IF op = "AWSS1Bucket.download_prd" /\ ~safe_format
            THEN /\ sf_pc' = "done"
                 /\ sf_result' = "flat"
                 /\ UNCHANGED <<safe_exists>>
            ELSE /\ sf_pc' = "dispatch"
                 /\ safe_exists' = TRUE
                 /\ UNCHANGED sf_result
    /\ flat_init' = flat_files
    /\ safe_init' = safe_exists
    /\ UNCHANGED <<prd_family, safe_format, sidecar, filename_map, manifest,
                   flat_exists, flat_files, safe_files, safe_dirs, sf_i,
                   sf_exc, s2>>

\* lines 59-70 of aws_to_safe
SfDispatch ==
    /\ sf_pc = "dispatch"
    /\ IF prd_family = "S1"
       THEN IF SidecarExists(flat_files)
            THEN /\ sf_pc' = "s1_open"
                 /\ UNCHANGED <<safe_exists, sf_exc>>
            ELSE IF safe_files # {} \/ safe_dirs # {}
                 THEN /\ sf_exc' = [type |-> "OSError"]
                      /\ sf_pc' = "raised"
                      /\ UNCHANGED safe_exists
                 ELSE /\ safe_exists' = RemoveSafeDir(safe_exists)
                      /\ sf_exc' = [type |-> "S1SafeConversionError"]
                      /\ sf_pc' = "except"
       ELSE IF prd_family = "S2L1C"
            THEN /\ sf_pc' = "s2_parse"
                 /\ UNCHANGED <<safe_exists, sf_exc>>
            ELSE /\ sf_exc' = [type |-> "ValueError"]
                 /\ sf_pc' = "raised"
                 /\ UNCHANGED safe_exists
    /\ UNCHANGED <<prd_family, safe_format, sf_op, sidecar, filename_map,
                   manifest, flat_exists, flat_files, flat_init, safe_init, safe_files,
                   safe_dirs, sf_i, sf_result, s2>>

\* S1SafeConversionError leaves aws_to_safe: aws.py lines 127-130 catch it,
\* any other caller lets it through
SfExcept ==
    /\ sf_pc = "except"
    /\ IF sf_op = "AWSS1Bucket.download_prd"
       THEN /\ flat_exists' = FlatAfterConversionError(flat_exists)
            /\ flat_files' = IF flat_exists' THEN flat_files ELSE {}
            /\ sf_exc' = [type |-> "AWSDownloadError"]
       ELSE UNCHANGED <<flat_exists, flat_files, sf_exc>>
    /\ sf_pc' = "raised"
    /\ UNCHANGED <<prd_family, safe_format, sf_op, sidecar, filename_map,
                   manifest, flat_init, safe_init, safe_exists, safe_files, safe_dirs,
                   sf_i, sf_result, s2>>

\* lines 89-92 of aws_s1_to_safe: json.load of the sidecar
S1Open ==
    /\ sf_pc = "s1_open"
    /\ IF sidecar = "ok"
       THEN /\ sf_pc' = "s1_move"
            /\ sf_i' = 1
            /\ UNCHANGED sf_exc
       ELSE /\ sf_exc' = [type |-> "JSONDecodeError"]
            /\ sf_pc' = "raised"
            /\ UNCHANGED sf_i
    /\ UNCHANGED <<prd_family, safe_format, sf_op, sidecar, filename_map,
                   manifest, flat_exists, flat_files, flat_init, safe_init, safe_exists,
                   safe_files, safe_dirs, sf_result, s2>>

\* lines 94-99: one entry of filenameMap, mkdir of the parent and rename
S1Move ==
    /\ sf_pc = "s1_move"
    /\ sf_i <= Len(filename_map)
    /\ LET e == filename_map[sf_i]
       IN  /\ safe_dirs' = safe_dirs \cup ParentDirs(e.target)
           /\ IF e.source \in flat_files
              THEN /\ flat_files' = flat_files \ {e.source}
                   /\ safe_files' = safe_files \cup {e.target}
                   /\ sf_i' = sf_i + 1
                   /\ UNCHANGED <<sf_pc, sf_exc>>
              ELSE /\ sf_exc' = [type |-> "FileNotFoundError"]
                   /\ sf_pc' = "raised"
                   /\ UNCHANGED <<flat_files, safe_files, sf_i>>
    /\ UNCHANGED <<prd_family, safe_format, sf_op, sidecar, filename_map,
                   manifest, flat_exists, flat_init, safe_init, safe_exists, sf_result,
                   s2>>

\* line 101, then lines 72-74 of aws_to_safe
S1Return ==
    /\ sf_pc = "s1_move"
    /\ sf_i > Len(filename_map)
    /\ sf_pc' = "rmtree"
    /\ UNCHANGED <<prd_family, safe_format, sf_op, sidecar, filename_map,
                   manifest, flat_exists, flat_files, flat_init, safe_init, safe_exists,
                   safe_files, safe_dirs, sf_i, sf_exc, sf_result, s2>>

\* lines 72-74 of aws_to_safe
SfRmtree ==
    /\ sf_pc = "rmtree"
    /\ flat_exists' = FALSE
    /\ flat_files' = {}
    /\ sf_result' = "safe"
    /\ sf_pc' = "done"
    /\ UNCHANGED <<prd_family, safe_format, sf_op, sidecar, filename_map,
                   manifest, flat_init, safe_init, safe_exists, safe_files, safe_dirs,
                   sf_i, sf_exc, s2>>

\* a name made of a stem and an extension
Nx(stem, ext) == <<stem, ext>>

ManifestPath == <<Nm("tile"), Nm("manifest.safe")>>

\* the element is not there yet: a local variable that is not bound
Unbound == <<>>

IsBound(v) == v # Unbound

\* the first element of the elements q that passed the test, Unbound when
\* there is none (for ... if ...: x = elt; break)
FirstOf(q) == IF q = <<>> THEN Unbound ELSE <<Head(q)>>

\* elt.parts[-2] == d
InDir(p, d) == Len(p) >= 2 /\ p[Len(p) - 1] = Nm(d)

\* lines 123-141: safe_struct, or the key the lookup fails on
StructKeys == {"DATASTRIP", "GRANULE", "HTML", "root"}

KnownTop(h) == Len(h) = 1 \/ \E k \in StructKeys : h[1] = Nm(k)

Bucket(hrefs, k) ==
    SelectSeq(hrefs, LAMBDA h : IF k = "root" THEN Len(h) = 1 \/ h[1] = Nm("root")
                                ELSE Len(h) > 1 /\ h[1] = Nm(k))

\* glob of the flat product directory: the files of the given depth below
\* the given top directory
Glob(fl, top, depth) == {p \in fl : Len(p) = depth /\ p[1] = Nm(top)}

HasExt(n, ext) == Len(n) >= 1 /\ n[Len(n)] = ext

\* the glob pattern *report.xml
IsReport(n) == Len(n) >= 2 /\ n[Len(n) - 1] = "_report" /\ n[Len(n)] = ".xml"

\* aws_qi_report.name.replace("_report", "")
StripReport(n) == SelectSeq(n, LAMBDA t : t # "_report")

\* index of the last "_" token of a name, 0 when there is none
LastUnderscore(n) ==
    IF \E i \in 1..Len(n) : n[i] = "_"
    THEN CHOOSE i \in 1..Len(n) : n[i] = "_" /\ \A j \in (i + 1)..Len(n) : n[j] # "_"
    ELSE 0

\* img.name.split("_")[-1]
Band(n) == Sub(n, LastUnderscore(n) + 1, Len(n))

\* the directories mkdir(parents=True) makes for directory d
DirsUpTo(d) == {Sub(d, 1, k) : k \in 1..Len(d)}

S2Frame ==
    UNCHANGED <<prd_family, safe_format, sf_op, sidecar, filename_map,
                manifest, flat_exists, flat_files, flat_init, safe_init, safe_exists,
                sf_i, sf_result>>

\* the step went through
S2Goto(next, newFiles, newDirs, newLocals) ==
    /\ sf_pc' = next
    /\ safe_files' = newFiles
    /\ safe_dirs' = newDirs
    /\ s2' = newLocals
    /\ UNCHANGED sf_exc
    /\ S2Frame

\* the step raised, what it wrote before stays
S2Raise(type, newFiles, newDirs) ==
    /\ sf_pc' = "raised"
    /\ sf_exc' = [type |-> type]
    /\ safe_files' = newFiles
    /\ safe_dirs' = newDirs
    /\ UNCHANGED s2
    /\ S2Frame

\* lines 119-141: parse tile/manifest.safe into safe_struct
S2Parse ==
    /\ sf_pc = "s2_parse"
    /\ IF ManifestPath \notin flat_files
       THEN S2Raise("FileNotFoundError", safe_files, safe_dirs)
       ELSE IF \E i \in 1..Len(manifest) : ~KnownTop(manifest[i])
       THEN S2Raise("KeyError", safe_files, safe_dirs)
       ELSE S2Goto("s2_manifest", safe_files, safe_dirs,
                   [struct |-> [k \in StructKeys |-> Bucket(manifest, k)],
                    ds_mtd |-> Unbound, ds_qi |-> Unbound,
                    gr_qi |-> Unbound, gr_aux |-> Unbound])

\* lines 144-153: manifest.safe and the three empty folders
S2CopyManifest ==
    /\ sf_pc = "s2_manifest"
    /\ S2Goto("s2_inspire", safe_files \cup {<<Nm("manifest.safe")>>},
              safe_dirs \cup {<<Nm("rep_info")>>, <<Nm("HTML")>>,
                              <<Nm("AUX_DATA")>>}, s2)

\* line 156
S2CopyInspire ==
    /\ sf_pc = "s2_inspire"
    /\ IF <<Nm("tile"), Nx("inspire", ".xml")>> \in flat_files
       THEN S2Goto("s2_mtd", safe_files \cup {<<Nx("INSPIRE", ".xml")>>},
                   safe_dirs, s2)
       ELSE S2Raise("FileNotFoundError", safe_files, safe_dirs)

\* lines 159-161
S2CopyMtd ==
    /\ sf_pc = "s2_mtd"
    /\ IF <<Nm("tile"), Nx("metadata", ".xml")>> \in flat_files
       THEN S2Goto("s2_ds_mtd", safe_files \cup {<<Nx("MTD_MSIL1C", ".xml")>>},
                   safe_dirs, s2)
       ELSE S2Raise("FileNotFoundError", safe_files, safe_dirs)

\* lines 166-177: the DATASTRIP folders and MTD_DS.xml
S2DatastripMtd ==
    /\ sf_pc = "s2_ds_mtd"
    /\ LET ds == s2.struct["DATASTRIP"]
           newDirs == safe_dirs \cup
                        UNION {DirsUpTo(Front(ds[i])) : i \in 1..Len(ds)}
           mtd == FirstOf(SelectSeq(ds, LAMBDA e : Last(e) = Nx("MTD_DS", ".xml")))
           found == {p \in Glob(flat_files, "tile", 4) :
                        Last(p) = Nx("metadata", ".xml")}
       IN  IF found = {}
           THEN S2Raise("IndexError", safe_files, newDirs)
           ELSE IF ~IsBound(mtd)
           THEN S2Raise("UnboundLocalError", safe_files, newDirs)
           ELSE S2Goto("s2_reports", safe_files \cup {mtd[1]}, newDirs,
                       [s2 EXCEPT !.ds_mtd = mtd])

\* lines 180-189: the report files of the datastrip
S2Reports ==
    /\ sf_pc = "s2_reports"
    /\ LET ds == s2.struct["DATASTRIP"]
           qi == FirstOf(SelectSeq(ds, LAMBDA e : InDir(e, "QI_DATA")))
           reports == {p \in Glob(flat_files, "tile", 5) : IsReport(Last(p))}
       IN  IF reports # {} /\ ~IsBound(qi)
           THEN S2Raise("UnboundLocalError", safe_files, safe_dirs)
           ELSE S2Goto("s2_gr_qi",
                       safe_files \cup
                         {Front(qi[1]) \o <<StripReport(Last(r))>> : r \in reports},
                       safe_dirs,
                       [s2 EXCEPT !.ds_qi = IF IsBound(qi) THEN <<Front(qi[1])>>
                                            ELSE Unbound])

\* lines 195-217: the GRANULE folders and the gml and xml files of QI_DATA
S2GranuleQi ==
    /\ sf_pc = "s2_gr_qi"
    /\ LET gr == s2.struct["GRANULE"]
           newDirs == safe_dirs \cup
                        UNION {DirsUpTo(Front(gr[i])) : i \in 1..Len(gr)}
           qi == FirstOf(SelectSeq(gr, LAMBDA e : InDir(e, "QI_DATA")))
           found == {p \in Glob(flat_files, "product", 3) :
                        /\ p[2] = Nm("qi")
                        /\ HasExt(Last(p), ".gml") \/ HasExt(Last(p), ".xml")}
       IN  IF found # {} /\ ~IsBound(qi)
           THEN S2Raise("UnboundLocalError", safe_files, newDirs)
           ELSE S2Goto("s2_aux",
                       safe_files \cup {Front(qi[1]) \o <<Last(f)>> : f \in found},
                       newDirs,
                       [s2 EXCEPT !.gr_qi = IF IsBound(qi) THEN <<Front(qi[1])>>
                                            ELSE Unbound])

\* lines 220-235: the ECMWF file, or an empty folder when the copy fails
S2Aux ==
    /\ sf_pc = "s2_aux"
    /\ LET gr == s2.struct["GRANULE"]
           listed == FirstOf(SelectSeq(gr, LAMBDA e : InDir(e, "AUX_DATA")))
           aux == IF IsBound(listed) THEN <<Front(listed[1])>>
                  ELSE IF IsBound(s2.gr_qi)
                       THEN <<Front(s2.gr_qi[1]) \o <<Nm("AUX_DATA")>> >>
                       ELSE Unbound
           found == {p \in Glob(flat_files, "product", 3) :
                        Last(p) = Nm("ECMWFT")}
       IN  IF ~IsBound(aux)
           THEN S2Raise("UnboundLocalError", safe_files, safe_dirs)
           ELSE IF found # {} /\ aux[1] \in safe_dirs
           THEN S2Goto("s2_img", safe_files \cup {aux[1] \o <<Nm("AUX_ECMWFT")>>},
                       safe_dirs, [s2 EXCEPT !.gr_aux = aux])
           ELSE S2Goto("s2_img", safe_files,
                       safe_dirs \cup DirsUpTo(aux[1] \o <<Nm("AUX_DATA")>>),
                       [s2 EXCEPT !.gr_aux = aux])

\* the images of img_jp2 that come before the first one whose band file is
\* not in the flat directory
RECURSIVE CopiedImages(_, _)
CopiedImages(imgs, fl) ==
    IF imgs = <<>> \/ <<Nm("product"), Band(Last(Head(imgs)))>> \notin fl
    THEN {}
    ELSE {Head(imgs)} \cup CopiedImages(Tail(imgs), fl)

\* lines 238-248: the band files of IMG_DATA
S2Img ==
    /\ sf_pc = "s2_img"
    /\ LET img_jp2 == SelectSeq(s2.struct["GRANULE"],
                                LAMBDA e : InDir(e, "IMG_DATA"))
           copied == CopiedImages(img_jp2, flat_files)
       IN  IF img_jp2 = <<>>
           THEN S2Raise("IndexError", safe_files, safe_dirs)
           ELSE IF Cardinality(copied) < Cardinality(Range(img_jp2))
           THEN S2Raise("IndexError", safe_files \cup copied, safe_dirs)
           ELSE S2Goto("s2_mtd_tl", safe_files \cup copied, safe_dirs, s2)

\* lines 251-256: MTD_TL.xml, then the return to aws_to_safe
S2MtdTl ==
    /\ sf_pc = "s2_mtd_tl"
    /\ IF ~IsBound(s2.gr_qi)
       THEN S2Raise("UnboundLocalError", safe_files, safe_dirs)
       ELSE IF <<Nm("product"), Nx("metadata", ".xml")>> \notin flat_files
       THEN S2Raise("FileNotFoundError", safe_files, safe_dirs)
       ELSE S2Goto("rmtree",
                   safe_files \cup
                     {Front(s2.gr_qi[1]) \o <<Nx("MTD_TL", ".xml")>>},
                   safe_dirs, s2)

\* what a SAFE directory left by an earlier call holds
OldSafeFile == <<Nm("old")>>

NoLocals == [struct |-> [k \in StructKeys |-> <<>>], ds_mtd |-> Unbound,
             ds_qi |-> Unbound, gr_qi |-> Unbound, gr_aux |-> Unbound]

SfIdle ==
    /\ sf_op = "none"
    /\ flat_exists = TRUE
    /\ flat_init = {}
    /\ safe_init = FALSE
    /\ safe_dirs = {}
    /\ sf_pc = "idle"
    /\ sf_i = 0
    /\ sf_exc = NoExc
    /\ sf_result = "none"
    /\ s2 = NoLocals

\* the inputs of the S2 reconstruction: the flat layout of the S2 L1C bucket
S2FlatAll ==
    { ManifestPath,
      <<Nm("tile"), Nx("inspire", ".xml")>>,
      <<Nm("tile"), Nx("metadata", ".xml")>>,
      <<Nm("tile"), Nm("datastrip"), Nm("0"), Nx("metadata", ".xml")>>,
      <<Nm("tile"), Nm("datastrip"), Nm("0"), Nm("qi"),
        <<"FORMAT_CORRECTNESS", "_report", ".xml">> >>,
      <<Nm("product"), Nm("qi"), Nx("MSK_CLOUDS_B00", ".gml")>>,
      <<Nm("product"), Nm("qi"), Nx("FORMAT_CORRECTNESS", ".xml")>>,
      <<Nm("product"), Nm("auxiliary"), Nm("ECMWFT")>>,
      <<Nm("product"), Nx("B01", ".jp2")>>,
      <<Nm("product"), Nx("metadata", ".xml")>> }

\* the fileLocation hrefs of a manifest.safe, in the order of the file
ManifestAll ==
    << <<Nx("MTD_MSIL1C", ".xml")>>,
       <<Nx("INSPIRE", ".xml")>>,
       <<Nm("HTML"), Nm("UserProduct_index.html")>>,
       <<Nm("DATASTRIP"), Nm("DS_1"), Nx("MTD_DS", ".xml")>>,
       <<Nm("DATASTRIP"), Nm("DS_1"), Nm("QI_DATA"),
         Nx("FORMAT_CORRECTNESS", ".xml")>>,
       <<Nm("GRANULE"), Nm("L1C_T"), Nx("MTD_TL", ".xml")>>,
       <<Nm("GRANULE"), Nm("L1C_T"), Nm("QI_DATA"), Nx("MSK_CLOUDS_B00", ".gml")>>,
       <<Nm("GRANULE"), Nm("L1C_T"), Nm("AUX_DATA"), Nm("AUX_ECMWFT")>>,
       <<Nm("GRANULE"), Nm("L1C_T"), Nm("IMG_DATA"),
         <<"T31TCJ", "_", "20210714T131719", "_", "B01", ".jp2">> >> >>

\* an href the manifest of some products holds besides
RepInfoHref == <<Nm("rep_info"), Nm("S2_User_Product_Level-1C_Metadata.xsd")>>

\* q without the elements at the positions of D
Without(q, D) ==
    LET keep == {i \in 1..Len(q) : i \notin D}
        F[i \in 0..Len(q)] ==
            IF i = 0 THEN <<>>
            ELSE IF i \in keep THEN Append(F[i - 1], q[i]) ELSE F[i - 1]
    IN  F[Len(q)]

Manifests ==
    {Without(ManifestAll, D) \o x :
        D \in {DD \in SUBSET (1..Len(ManifestAll)) : Cardinality(DD) <= MaxOmitted},
        x \in {<<>>, <<RepInfoHref>>}}

S2FlatTrees ==
    {S2FlatAll \ M : M \in {MM \in SUBSET S2FlatAll : Cardinality(MM) <= MaxMissing}}

S2Init ==
    /\ prd_family = "S2L1C"
    /\ safe_format \in BOOLEAN
    /\ sidecar = "ok"
    /\ filename_map = <<>>
    /\ manifest \in Manifests
    /\ flat_files \in S2FlatTrees
    /\ safe_exists \in BOOLEAN
    /\ safe_files \in {{}, {OldSafeFile}}
    /\ safe_files # {} => safe_exists
    /\ SfIdle

\* the inputs of the S1 reconstruction: the flat layout of the S1 bucket
S1Entries ==
    { [target |-> <<Nm("manifest.safe")>>, source |-> <<Nm("manifest.safe")>>],
      [target |-> <<Nm("measurement"), Nm("s1a-iw-grd-vv.tiff")>>,
       source |-> <<Nm("measurement"), Nm("iw-vv.tiff")>>],
      [target |-> <<Nm("annotation"), Nm("s1a-iw-grd-vv.xml")>>,
       source |-> <<Nm("annotation"), Nm("iw-vv.xml")>>] }

FilenameMaps ==
    {q \in SeqsUpTo(S1Entries, MaxMoves) :
        \A i, j \in 1..Len(q) : i # j => q[i] # q[j]}

S1FlatTrees ==
    {F \cup G : F \in SUBSET {e.source : e \in S1Entries},
                G \in {{}, {<<SidecarName>>}}}

S1Init ==
    /\ prd_family \in {"S1", "other"}
    /\ safe_format \in BOOLEAN
    /\ sidecar \in {"ok", "corrupt"}
    /\ filename_map \in FilenameMaps
    /\ manifest = <<>>
    /\ flat_files \in S1FlatTrees
    /\ safe_exists \in BOOLEAN
    /\ safe_files \in {{}, {OldSafeFile}}
    /\ safe_files # {} => safe_exists
    /\ SfIdle

SfQuiet ==
    /\ prd_family = "other"
    /\ safe_format = FALSE
    /\ sidecar = "ok"
    /\ filename_map = <<>>
    /\ manifest = <<>>
    /\ flat_files = {}
    /\ safe_exists = FALSE
    /\ safe_files = {}
    /\ SfIdle

SfNext ==
    \/ SfCall
    \/ SfDispatch
    \/ SfExcept
    \/ S1Open
    \/ S1Move
    \/ S1Return
    \/ S2Parse
    \/ S2CopyManifest
    \/ S2CopyInspire
    \/ S2CopyMtd
    \/ S2DatastripMtd
    \/ S2Reports
    \/ S2GranuleQi
    \/ S2Aux
    \/ S2Img
    \/ S2MtdTl
    \/ SfRmtree

(***************************************************************************)
(* Folder discovery of the AWS S2 buckets: AWSS2Bucket._download_s2_prd    *)
(* with EOBucket._list_folders, _find_product and _find_aws_folder_number  *)
(***************************************************************************)
VARIABLES
    fd_cls,          \* the class download_prd is called on
    product_level,   \* s2_prd_info.product_level
    l2_mask_only,    \* argument of _download_s2_prd
    common_prefixes, \* CommonPrefixes the store answers with
    folder_list,     \* what _list_folders returned
    found,           \* product_name or folder_number, <<>> before
    fd_pc,           \* position of the call
    fd_exc,          \* the exception the call raised
    fd_requests      \* the requests sent and the _download_prd calls made

fdVars == <<fd_cls, product_level, l2_mask_only, common_prefixes, folder_list,
            found, fd_pc, fd_exc, fd_requests>>

\* download_prd of AWSS2L2ACOGSBucket passes l2a_cogs=True
L2aCogs(cls) == cls = "AWSS2L2ACOGSBucket"

\* "/".join(prefix_components) + "/" at lines 184-186 and 222
ProductsPath(cogs) == IF cogs THEN <<"c", "/">> ELSE <<"t", "/">>

\* product_date, strftime("%Y%m%d") of the sensing start
ProductDate == <<"7">>

\* prd_prefix of lines 207-218, "products/<y>/<m>/<d>/<id>/"
ProductsPrefix == <<"p", "/">>

Digits == {"0", "1", "2", "3", "4", "5", "6", "7", "8", "9"}

DigitVal(c) ==
    CASE c = "0" -> 0 [] c = "1" -> 1 [] c = "2" -> 2 [] c = "3" -> 3
      [] c = "4" -> 4 [] c = "5" -> 5 [] c = "6" -> 6 [] c = "7" -> 7
      [] c = "8" -> 8 [] OTHER -> 9

\* int(s) returns for a string of digits, raises ValueError otherwise
IsInt(s) == s # <<>> /\ \A i \in 1..Len(s) : s[i] \in Digits

RECURSIVE IntOf(_)
IntOf(s) ==
    IF s = <<>> THEN 0 ELSE IntOf(Front(s)) * 10 + DigitVal(Last(s))

\* folder.split("/")[-2]
FolderName(folder) == Split(folder)[Len(Split(folder)) - 1]

\* the comparison is made on the strings
Greater_str(a, b) == StrLess(b, a)

\* line 269: int(...) > int(folder_number)
Greater(a, b) == IntOf(a) > IntOf(b)

\* _find_aws_folder_number: the loop of lines 266-270 from folder_number on;
\* <<"ValueError">> stands for the exception int() raises
RECURSIVE FindAwsFolderNumber(_, _)
FindAwsFolderNumber(folders, folder_number) ==
    IF folders = <<>> THEN folder_number
    ELSE IF ~IsInt(FolderName(Head(folders))) THEN <<"ValueError">>
    ELSE FindAwsFolderNumber(Tail(folders),
            IF Greater(FolderName(Head(folders)), folder_number)
            THEN FolderName(Head(folders)) ELSE folder_number)

\* _find_product: the loop of lines 244-249, prd_name is <<>> while unbound
RECURSIVE FindProduct(_, _, _)
FindProduct(folders, prd_date, prd_name) ==
    IF folders = <<>> THEN prd_name
    ELSE FindProduct(Tail(folders), prd_date,
            IF Contains(FolderName(Head(folders)), prd_date)
            THEN FolderName(Head(folders)) ELSE prd_name)

\* lines 187 and 223: _list_folders sends one list_objects_v2 request with
\* Delimiter "/" and returns the Prefix of every CommonPrefixes entry
FdListFolders ==
    /\ fd_pc = "list"
    /\ fd_requests' = Append(fd_requests,
          [op |-> "list_objects_v2", Prefix |-> ProductsPath(L2aCogs(fd_cls)),
           out |-> "none"])
    /\ folder_list' = common_prefixes
    /\ fd_pc' = "find"
    /\ UNCHANGED <<fd_cls, product_level, l2_mask_only, common_prefixes,
                   found, fd_exc>>

\* line 188: product_name = self._find_product(folder_list, product_date)
FdFindProduct ==
    /\ fd_pc = "find"
    /\ L2aCogs(fd_cls)
    /\ LET prd_name == FindProduct(folder_list, ProductDate, <<>>)
       IN  IF prd_name = <<>>
           THEN /\ fd_exc' = [type |-> "UnboundLocalError"]
                /\ fd_pc' = "raised"
                /\ UNCHANGED found
           ELSE /\ found' = prd_name
                /\ fd_pc' = "get"
                /\ UNCHANGED fd_exc
    /\ UNCHANGED <<fd_cls, product_level, l2_mask_only, common_prefixes,
                   folder_list, fd_requests>>

\* line 224: folder_number = self._find_aws_folder_number(folder_list)
FdFindFolderNumber ==
    /\ fd_pc = "find"
    /\ ~L2aCogs(fd_cls)
    /\ LET folder_number == FindAwsFolderNumber(folder_list, <<"0">>)
       IN  IF folder_number = <<"ValueError">>
           THEN /\ fd_exc' = [type |-> "ValueError"]
                /\ fd_pc' = "raised"
                /\ UNCHANGED found
           ELSE /\ found' = folder_number
                /\ fd_pc' = "get"
                /\ UNCHANGED fd_exc
    /\ UNCHANGED <<fd_cls, product_level, l2_mask_only, common_prefixes,
                   folder_list, fd_requests>>

\* the prefix built with what was found: lines 190-191 and 225-227
FoundPrefix(cogs, name) == ProductsPath(cogs) \o name \o <<Slash>>

\* lines 194-206 and 229-260: the transfers that follow the discovery
Transfers(cogs, level, mask_only, name) ==
    IF cogs
    THEN IF mask_only
         THEN << [op |-> "download_file",
                  Prefix |-> FoundPrefix(cogs, name) \o <<"SCL.tif">>,
                  out |-> "root"] >>
         ELSE << [op |-> "_download_prd", Prefix |-> FoundPrefix(cogs, name),
                  out |-> "root"] >>
    ELSE IF level = "L2A"
         THEN IF mask_only
              THEN << [op |-> "download_file",
                       Prefix |-> FoundPrefix(cogs, name)
                                    \o <<"R20m", "/", "SCL.jp2">>,
                       out |-> "root"] >>
              ELSE << [op |-> "_download_prd", Prefix |-> ProductsPrefix,
                       out |-> "product"],
                      [op |-> "_download_prd",
                       Prefix |-> FoundPrefix(cogs, name), out |-> "tile"] >>
         ELSE << [op |-> "_download_prd", Prefix |-> ProductsPrefix,
                  out |-> "tile"],
                 [op |-> "_download_prd", Prefix |-> FoundPrefix(cogs, name),
                  out |-> "product"] >>

FdDownload ==
    /\ fd_pc = "get"
    /\ fd_requests' = fd_requests \o
          Transfers(L2aCogs(fd_cls), product_level, l2_mask_only, found)
    /\ fd_pc' = "done"
    /\ UNCHANGED <<fd_cls, product_level, l2_mask_only, common_prefixes,
                   folder_list, found, fd_exc>>

\* the names of the folders the store lists under the tile-date path
NumberNames == {<<"0">>, <<"1">>, <<"9">>, <<"1", "0">>, <<"x">>}

\* the names of the folders the store lists under the COG tile-month path
ProductNames == {<<"a", "7">>, <<"a", "8">>, <<"b", "7">>}

\* CommonPrefixes: distinct prefixes, in the order the store gives them
FolderLists(path, names) ==
    {[i \in 1..Len(q) |-> path \o q[i] \o <<Slash>>] :
        q \in {qq \in SeqsUpTo(names, MaxFolders) :
                 \A i, j \in 1..Len(qq) : i # j => qq[i] # qq[j]}}

FdIdle ==
    /\ folder_list = <<>>
    /\ found = <<>>
    /\ fd_exc = NoExc
    /\ fd_requests = <<>>

FdInit ==
    /\ fd_cls \in {"AWSS2L1CBucket", "AWSS2L2ABucket", "AWSS2L2ACOGSBucket"}
    /\ product_level \in {"L1C", "L2A"}
    /\ l2_mask_only \in BOOLEAN
    /\ fd_cls = "AWSS2L1CBucket" => ~l2_mask_only
    /\ common_prefixes \in
          FolderLists(ProductsPath(L2aCogs(fd_cls)),
                      IF L2aCogs(fd_cls) THEN ProductNames ELSE NumberNames)
    /\ fd_pc = "list"
    /\ FdIdle

\* no product is looked for
FdQuiet ==
    /\ fd_cls = "AWSS2L1CBucket"
    /\ product_level = "L1C"
    /\ l2_mask_only = FALSE
    /\ common_prefixes = <<>>
    /\ fd_pc = "idle"
    /\ FdIdle

FdNext ==
    \/ FdListFolders
    \/ FdFindProduct
    \/ FdFindFolderNumber
    \/ FdDownload

(***************************************************************************)
(* Product identifiers: S1PrdIdInfo, S2PrdIdInfo, L8C2PrdIdInfo and the    *)
(* key prefix AWSS1Bucket.download_prd derives from an S1 identifier       *)
(***************************************************************************)
VARIABLES
    id_family,   \* the class the identifier is given to: "S1", "S2", "L8C2"
    prd_id,      \* the identifier, a string
    id_info,     \* what the constructor did with prd_id
    id_safe,     \* what the constructor did with prd_id + ".SAFE"
    id_valid,    \* what is_valid(prd_id) did
    id_prefix    \* what lines 97-115 of AWSS1Bucket.download_prd did

idVars == <<id_family, prd_id, id_info, id_safe, id_valid, id_prefix>>

\* index of the first c of s, 0 when there is none
FirstOfChar(s, c) ==
    IF \E i \in 1..Len(s) : s[i] = c
    THEN CHOOSE i \in 1..Len(s) : s[i] = c /\ \A j \in 1..(i - 1) : s[j] # c
    ELSE 0

\* Python's s.split(c)
RECURSIVE SplitOn(_, _)
SplitOn(s, c) ==
    IF FirstOfChar(s, c) = 0 THEN <<s>>
    ELSE <<Sub(s, 1, FirstOfChar(s, c) - 1)>>
            \o SplitOn(Sub(s, FirstOfChar(s, c) + 1, Len(s)), c)

\* Python's s[a:b] for 0 <= a <= b: the characters a+1..b that s has
Slice(s, a, b) == Sub(s, a + 1, IF b < Len(s) THEN b ELSE Len(s))

\* Python's s[a:]
SliceFrom(s, a) == Sub(s, a + 1, Len(s))

\* Python's "sep".join(parts)
RECURSIVE Join(_, _)
Join(parts, sep) ==
    IF parts = <<>> THEN <<>>
    ELSE IF Len(parts) = 1 THEN parts[1]
    ELSE parts[1] \o sep \o Join(Tail(parts), sep)

AllDigits(s) == \A i \in 1..Len(s) : s[i] \in Digits

\* str(n) for 0 <= n
DigitChar(d) ==
    CASE d = 0 -> "0" [] d = 1 -> "1" [] d = 2 -> "2" [] d = 3 -> "3"
      [] d = 4 -> "4" [] d = 5 -> "5" [] d = 6 -> "6" [] d = 7 -> "7"
      [] d = 8 -> "8" [] OTHER -> "9"

RECURSIVE StrOfInt(_)
StrOfInt(n) ==
    IF n < 10 THEN <<DigitChar(n)>>
    ELSE StrOfInt(n \div 10) \o <<DigitChar(n % 10)>>

(* datetime.strptime.  The format is turned into a regular expression, one  *)
(* group per directive: %Y is four digits, the others two digits in their  *)
(* range or else one digit; re.match takes the first match in that order   *)
(* of preference, and data left over after it is an error.                 *)
StrptimeFail == [ok |-> FALSE, vals |-> <<>>, end |-> 0]

\* the regular expression of a directive matches the digits t
DirectiveOk(k, t) ==
    /\ t # <<>>
    /\ AllDigits(t)
    /\ LET lo == IF k \in {"m", "d"} THEN 1 ELSE 0
           hi == CASE k = "m" -> 12 [] k = "d" -> 31 [] k = "H" -> 23
                   [] k = "M" -> 59 [] OTHER -> 61
       IN  IF Len(t) = 2 THEN IntOf(t) >= lo /\ IntOf(t) <= hi
           ELSE IntOf(t) >= lo

RECURSIVE MatchDirectives(_, _, _)
MatchDirectives(s, pos, ks) ==
    IF ks = <<>> THEN [ok |-> TRUE, vals |-> <<>>, end |-> pos]
    ELSE IF Head(ks) = "T"
    THEN IF pos <= Len(s) /\ s[pos] = "T"
         THEN MatchDirectives(s, pos + 1, Tail(ks))
         ELSE StrptimeFail
    ELSE LET two == IF pos + 1 <= Len(s)
                       /\ DirectiveOk(Head(ks), Sub(s, pos, pos + 1))
                    THEN MatchDirectives(s, pos + 2, Tail(ks))
                    ELSE StrptimeFail
             one == IF pos <= Len(s) /\ DirectiveOk(Head(ks), Sub(s, pos, pos))
                    THEN MatchDirectives(s, pos + 1, Tail(ks))
                    ELSE StrptimeFail
         IN  IF two.ok
             THEN [two EXCEPT !.vals = <<IntOf(Sub(s, pos, pos + 1))>> \o @]
             ELSE IF one.ok
             THEN [one EXCEPT !.vals = <<IntOf(Sub(s, pos, pos))>> \o @]
             ELSE StrptimeFail

IsLeap(y) == (y % 4 = 0 /\ y % 100 # 0) \/ y % 400 = 0

DaysIn(y, m) ==
    IF m = 2 THEN (IF IsLeap(y) THEN 29 ELSE 28)
    ELSE IF m \in {4, 6, 9, 11} THEN 30 ELSE 31

\* FORMAT_DATETIME = '%Y%m%dT%H%M%S', _FORMAT_DATETIME = "%Y%m%d" and the
\* "%Y%m" of agera5_to_satio_csv
DirectivesOf(format) ==
    IF format = "%Y%m%dT%H%M%S" THEN <<"m", "d", "T", "H", "M", "S">>
    ELSE IF format = "%Y%m" THEN <<"m">>
    ELSE <<"m", "d">>

\* datetime.strptime(value, format): the date and time as numbers, or
\* ok = FALSE for ValueError
Strptime(value, format) ==
    IF Len(value) < 4 \/ ~AllDigits(Sub(value, 1, 4)) THEN [ok |-> FALSE]
    ELSE LET r == MatchDirectives(value, 5, DirectivesOf(format))
             y == IntOf(Sub(value, 1, 4))
         IN  IF ~r.ok \/ r.end # Len(value) + 1 THEN [ok |-> FALSE]
             ELSE IF y < 1 THEN [ok |-> FALSE]
             ELSE IF Len(r.vals) = 1
             THEN [ok |-> TRUE, year |-> y, month |-> r.vals[1], day |-> 1,
                   time |-> <<>>]
             ELSE IF r.vals[2] > DaysIn(y, r.vals[1])
             THEN [ok |-> FALSE]
             ELSE IF Len(r.vals) = 5 /\ r.vals[5] > 59 THEN [ok |-> FALSE]
             ELSE [ok |-> TRUE, year |-> y, month |-> r.vals[1],
                   day |-> r.vals[2],
                   time |-> Sub(r.vals, 3, Len(r.vals))]

\* the exception of a setter that checks membership in allowed_values
CheckIn(value, allowed) == IF value \in allowed THEN "None" ELSE "ValueError"

\* token[i], then the setter: IndexError when the token has no index i
CheckAt(token, i, allowed) ==
    IF Len(token) <= i THEN "IndexError"
    ELSE CheckIn(<<token[i + 1]>>, allowed)

\* a setter that checks len(value)
CheckLen(value, n) == IF Len(value) = n THEN "None" ELSE "ValueError"

\* a setter that calls datetime.strptime
CheckDate(value, format) ==
    IF Strptime(value, format).ok THEN "None" ELSE "ValueError"

\* the relative_orbit_number setter of S2PrdIdInfo, lines 53-60
CheckOrbit(value) ==
    IF Len(value) # 3 THEN "ValueError"
    ELSE IF ~IsInt(value) THEN "ValueError"
    ELSE IF IntOf(value) >= 1 /\ IntOf(value) <= 143 THEN "None"
    ELSE "ValueError"

\* the assignments of a constructor run in order: the first exception ends it
RECURSIVE FirstExc(_)
FirstExc(checks) ==
    IF checks = <<>> THEN "None"
    ELSE IF Head(checks) # "None" THEN Head(checks)
    ELSE FirstExc(Tail(checks))

\* the constructor raised
Raises(type) == [exc |-> type, fields |-> <<>>]

\* the constructor returned the object with these attributes
Built(fields) == [exc |-> "None", fields |-> fields]

\* S1PrdIdInfo.__init__, s1_prd_id.py lines 7-27 with the setters
S1PrdIdInfo(s1_prd_id) ==
    LET e == SplitOn(SplitOn(s1_prd_id, ".")[1], "_")
    IN  IF Len(e) # 9 THEN Raises("ValueError")
        ELSE LET x == FirstExc(<<
                    CheckIn(e[1], {<<"S", "1", "A">>, <<"S", "1", "B">>}),
                    CheckIn(e[2], {<<"S", "M">>, <<"I", "W">>, <<"E", "W">>, <<"W", "V">>}),
                    CheckIn(Slice(e[3], 0, 3), {<<"S", "L", "C">>, <<"G", "R", "D">>, <<"O", "C", "N">>}),
                    CheckAt(e[3], 3, {<<"F">>, <<"H">>, <<"M">>}),
                    CheckAt(e[4], 0, {<<"1">>, <<"2">>}),
                    CheckAt(e[4], 1, {<<"S">>, <<"A">>}),
                    CheckIn(SliceFrom(e[4], 2), {<<"S", "H">>, <<"S", "V">>, <<"D", "H">>, <<"D", "V">>}),
                    CheckDate(e[5], "%Y%m%dT%H%M%S"),
                    CheckDate(e[6], "%Y%m%dT%H%M%S"),
                    CheckLen(e[7], 6),
                    CheckLen(e[8], 6),
                    CheckLen(e[9], 4) >>)
             IN  IF x # "None" THEN Raises(x)
                 ELSE Built([mission_id |-> e[1],
                             beam_mode |-> e[2],
                             product_type |-> Slice(e[3], 0, 3),
                             resolution_class |-> <<e[3][4]>>,
                             processing_level |-> <<e[4][1]>>,
                             product_class |-> <<e[4][2]>>,
                             polarisation |-> SliceFrom(e[4], 2),
                             start_time |-> Strptime(e[5], "%Y%m%dT%H%M%S"),
                             stop_time |-> Strptime(e[6], "%Y%m%dT%H%M%S"),
                             absolute_orbit_number |-> e[7],
                             mission_datatake_id |-> e[8],
                             product_unique_id |-> e[9]])

\* S2PrdIdInfo.__init__, s2_prd_id.py lines 7-22 with the setters
S2PrdIdInfo(s2_prd_id) ==
    LET e == SplitOn(SplitOn(s2_prd_id, ".")[1], "_")
    IN  IF Len(e) # 7 THEN Raises("ValueError")
        ELSE LET x == FirstExc(<<
                    CheckIn(e[1], {<<"S", "2", "A">>, <<"S", "2", "B">>}),
                    CheckIn(SliceFrom(e[2], 3), {<<"L", "1", "C">>, <<"L", "2", "A">>}),
                    CheckDate(e[3], "%Y%m%dT%H%M%S"),
                    CheckOrbit(Slice(e[5], 1, 4)),
                    CheckLen(Slice(e[6], 1, 6), 5),
                    CheckLen(e[7], 15) >>)
             IN  IF x # "None" THEN Raises(x)
                 ELSE Built([mission_id |-> e[1],
                             product_level |-> SliceFrom(e[2], 3),
                             datatake_sensing_start_time |->
                                 Strptime(e[3], "%Y%m%dT%H%M%S"),
                             pdgs_processing_baseline_number |->
                                 Slice(e[4], 1, 5),
                             relative_orbit_number |-> Slice(e[5], 1, 4),
                             tile_id |-> Slice(e[6], 1, 6),
                             product_discriminator |-> e[7]])

\* L8C2PrdIdInfo.__init__, l8_prd_id.py lines 64-81 with the setters
L8C2PrdIdInfo(l8_c2_prd_id) ==
    LET e == SplitOn(l8_c2_prd_id, "_")
    IN  IF Len(e) # 7 THEN Raises("ValueError")
        ELSE LET x == FirstExc(<<
                    CheckIn(Slice(e[1], 3, 4), {<<"8">>, <<"9">>}),
                    CheckIn(e[2], {<<"L", "2", "S", "P">>, <<"L", "2", "S", "R">>}),
                    CheckDate(e[4], "%Y%m%d"),
                    CheckDate(e[5], "%Y%m%d"),
                    CheckIn(e[6], {<<"0", "2">>}),
                    CheckIn(e[7], {<<"T", "1">>, <<"T", "2">>}) >>)
             IN  IF x # "None" THEN Raises(x)
                 ELSE Built([platform_id |-> Slice(e[1], 3, 4),
                             processing_level |-> e[2],
                             wrs2_path |-> Slice(e[3], 0, 3),
                             wrs2_row |-> SliceFrom(e[3], 3),
                             acquisition_date |-> Strptime(e[4], "%Y%m%d"),
                             processing_date |-> Strptime(e[5], "%Y%m%d"),
                             collection |-> e[6],
                             collection_category |-> e[7]])

PrdIdInfo(family, id) ==
    CASE family = "S1" -> S1PrdIdInfo(id)
      [] family = "S2" -> S2PrdIdInfo(id)
      [] OTHER -> L8C2PrdIdInfo(id)

\* is_valid: True, False on ValueError, any other exception leaves it
IsValid(info) ==
    IF info.exc = "None" THEN "True"
    ELSE IF info.exc = "ValueError" THEN "False"
    ELSE info.exc

\* prd_id.split(".")[0]
BeforeDot(id) == SplitOn(id, ".")[1]

\* the prefix with month and day as the identifier writes them
S1KeyPrefix_padded(id) ==
    LET info == S1PrdIdInfo(id)
        e == SplitOn(BeforeDot(id), "_")
    IN  IF info.exc # "None" THEN [exc |-> info.exc, prefix |-> <<>>]
        ELSE [exc |-> "None",
              prefix |->
                Join(<<info.fields.product_type,
                       Sub(e[5], 1, 4), Sub(e[5], 5, 6), Sub(e[5], 7, 8),
                       info.fields.beam_mode,
                       info.fields.polarisation,
                       BeforeDot(id)>>, <<Slash>>) \o <<Slash>>]

\* aws.py lines 100-115: prd_prefix of AWSS1Bucket.download_prd
S1KeyPrefix(id) ==
    LET info == S1PrdIdInfo(id)
    IN  IF info.exc # "None" THEN [exc |-> info.exc, prefix |-> <<>>]
        ELSE [exc |-> "None",
              prefix |->
                Join(<<info.fields.product_type,
                       StrOfInt(info.fields.start_time.year),
                       StrOfInt(info.fields.start_time.month),
                       StrOfInt(info.fields.start_time.day),
                       info.fields.beam_mode,
                       info.fields.polarisation,
                       BeforeDot(id)>>, <<Slash>>) \o <<Slash>>]

\* nothing has been called yet
NotRun == [exc |-> "NotRun", fields |-> <<>>]

NoPrefix == [exc |-> "NotRun", prefix |-> <<>>]

\* info = XPrdIdInfo(prd_id)
IdConstruct ==
    /\ id_info.exc = "NotRun"
    /\ id_info' = PrdIdInfo(id_family, prd_id)
    /\ UNCHANGED <<id_family, prd_id, id_safe, id_valid, id_prefix>>

\* XPrdIdInfo.is_valid(prd_id)
IdIsValid ==
    /\ id_valid = "NotRun"
    /\ id_valid' = IsValid(PrdIdInfo(id_family, prd_id))
    /\ UNCHANGED <<id_family, prd_id, id_info, id_safe, id_prefix>>

\* XPrdIdInfo(prd_id + ".SAFE")
IdConstructSafe ==
    /\ id_safe.exc = "NotRun"
    /\ id_safe' = PrdIdInfo(id_family, prd_id \o <<".", "S", "A", "F", "E">>)
    /\ UNCHANGED <<id_family, prd_id, id_info, id_valid, id_prefix>>

\* AWSS1Bucket.download_prd(prd_id, ...) up to prd_prefix
IdS1Prefix ==
    /\ id_family = "S1"
    /\ id_prefix.exc = "NotRun"
    /\ id_prefix' = S1KeyPrefix(prd_id)
    /\ UNCHANGED <<id_family, prd_id, id_info, id_safe, id_valid>>

(* The identifiers given to the classes: a well-formed identifier of each  *)
(* family in which at most MaxChanged tokens are replaced, or a token is   *)
(* missing or added, followed by nothing, ".SAFE" or ".zip".               *)
\* S1A_IW_GRDH_1SDV_20210708T060105_20210708T060130_038682_04908E_8979
S1Base ==
    <<<<"S", "1", "A">>, <<"I", "W">>, <<"G", "R", "D", "H">>,
      <<"1", "S", "D", "V">>,
      <<"2", "0", "2", "1", "0", "7", "0", "8", "T", "0", "6", "0", "1", "0", "5">>,
      <<"2", "0", "2", "1", "0", "7", "0", "8", "T", "0", "6", "0", "1", "3", "0">>,
      <<"0", "3", "8", "6", "8", "2">>, <<"0", "4", "9", "0", "8", "E">>,
      <<"8", "9", "7", "9">>>>

\* the tokens that replace those of S1Base
S1Other ==
    <<
      \* token 1: S1B, S1C
      {<<"S", "1", "B">>, <<"S", "1", "C">>},
      \* token 2: EW, XX
      {<<"E", "W">>, <<"X", "X">>},
      \* token 3: GRD, GRDHX, GRDX, OCNM
      {<<"G", "R", "D">>, <<"G", "R", "D", "H", "X">>, <<"G", "R", "D", "X">>,
       <<"O", "C", "N", "M">>},
      \* token 4: 2ASH, 1S, 1, '', 1SDVX
      {<<"2", "A", "S", "H">>, <<"1", "S">>, <<"1">>, <<>>,
       <<"1", "S", "D", "V", "X">>},
      \* token 5: 20211130T235959, 20211308T060105, 202178T060105, 20210708T0601, 20210230T060105
      {<<"2", "0", "2", "1", "1", "1", "3", "0", "T", "2", "3", "5", "9", "5", "9">>,
       <<"2", "0", "2", "1", "1", "3", "0", "8", "T", "0", "6", "0", "1", "0", "5">>,
       <<"2", "0", "2", "1", "7", "8", "T", "0", "6", "0", "1", "0", "5">>,
       <<"2", "0", "2", "1", "0", "7", "0", "8", "T", "0", "6", "0", "1">>,
       <<"2", "0", "2", "1", "0", "2", "3", "0", "T", "0", "6", "0", "1", "0", "5">>},
      \* token 6: 20210708T066130
      {<<"2", "0", "2", "1", "0", "7", "0", "8", "T", "0", "6", "6", "1", "3", "0">>},
      \* token 7: 03868, ABCDEF
      {<<"0", "3", "8", "6", "8">>, <<"A", "B", "C", "D", "E", "F">>},
      \* token 8: 04908, 04908EX
      {<<"0", "4", "9", "0", "8">>, <<"0", "4", "9", "0", "8", "E", "X">>},
      \* token 9: 897, 89790
      {<<"8", "9", "7">>, <<"8", "9", "7", "9", "0">>}
    >>

\* S2A_MSIL1C_20210708T060105_N0301_R031_T53NMJ_20210708T071013
S2Base ==
    <<<<"S", "2", "A">>, <<"M", "S", "I", "L", "1", "C">>,
      <<"2", "0", "2", "1", "0", "7", "0", "8", "T", "0", "6", "0", "1", "0", "5">>,
      <<"N", "0", "3", "0", "1">>, <<"R", "0", "3", "1">>,
      <<"T", "5", "3", "N", "M", "J">>,
      <<"2", "0", "2", "1", "0", "7", "0", "8", "T", "0", "7", "1", "0", "1", "3">>>>

\* the tokens that replace those of S2Base
S2Other ==
    <<
      \* token 1: S2B, S2C
      {<<"S", "2", "B">>, <<"S", "2", "C">>},
      \* token 2: MSIL2A, MSIL2, L1C
      {<<"M", "S", "I", "L", "2", "A">>, <<"M", "S", "I", "L", "2">>,
       <<"L", "1", "C">>},
      \* token 3: 20211308T060105
      {<<"2", "0", "2", "1", "1", "3", "0", "8", "T", "0", "6", "0", "1", "0", "5">>},
      \* token 4: N03, ''
      {<<"N", "0", "3">>, <<>>},
      \* token 5: R143, R144, R000, R03, R0311, RABC
      {<<"R", "1", "4", "3">>, <<"R", "1", "4", "4">>, <<"R", "0", "0", "0">>,
       <<"R", "0", "3">>, <<"R", "0", "3", "1", "1">>, <<"R", "A", "B", "C">>},
      \* token 6: T53NM, T53NMJX, 53NMJ
      {<<"T", "5", "3", "N", "M">>, <<"T", "5", "3", "N", "M", "J", "X">>,
       <<"5", "3", "N", "M", "J">>},
      \* token 7: 20210708T07101, 20210708T0710133
      {<<"2", "0", "2", "1", "0", "7", "0", "8", "T", "0", "7", "1", "0", "1">>,
       <<"2", "0", "2", "1", "0", "7", "0", "8", "T", "0", "7", "1", "0", "1", "3", "3">>}
    >>

\* LC08_L2SP_227082_20210708_20210715_02_T1
L8Base ==
    <<<<"L", "C", "0", "8">>, <<"L", "2", "S", "P">>,
      <<"2", "2", "7", "0", "8", "2">>,
      <<"2", "0", "2", "1", "0", "7", "0", "8">>,
      <<"2", "0", "2", "1", "0", "7", "1", "5">>, <<"0", "2">>, <<"T", "1">>>>

\* the tokens that replace those of L8Base
L8Other ==
    <<
      \* token 1: LC09, LC07, LC08X, LC0
      {<<"L", "C", "0", "9">>, <<"L", "C", "0", "7">>,
       <<"L", "C", "0", "8", "X">>, <<"L", "C", "0">>},
      \* token 2: L2SR, L1TP
      {<<"L", "2", "S", "R">>, <<"L", "1", "T", "P">>},
      \* token 3: 22708, ''
      {<<"2", "2", "7", "0", "8">>, <<>>},
      \* token 4: 20211308, 2021078
      {<<"2", "0", "2", "1", "1", "3", "0", "8">>,
       <<"2", "0", "2", "1", "0", "7", "8">>},
      \* token 5: 20210230
      {<<"2", "0", "2", "1", "0", "2", "3", "0">>},
      \* token 6: 01
      {<<"0", "1">>},
      \* token 7: T2, RT
      {<<"T", "2">>, <<"R", "T">>}
    >>

\* base with the tokens at the positions of f replaced by f's
Replace(base, f) ==
    [i \in 1..Len(base) |-> IF i \in DOMAIN f THEN f[i] ELSE base[i]]

TokenLists(base, other) ==
    LET all == UNION {other[i] : i \in 1..Len(other)}
        changed ==
            UNION {{Replace(base, f) :
                        f \in {g \in [P -> all] : \A i \in P : g[i] \in other[i]}} :
                   P \in {Q \in SUBSET (1..Len(base)) :
                            Cardinality(Q) <= MaxChanged}}
    IN  changed \cup {Sub(base, 1, Len(base) - 1), base \o <<base[1]>>}

IdSuffixes == {<<>>, <<".", "S", "A", "F", "E">>, <<".", "z", "i", "p">>}

IdsOf(base, other) ==
    {Join(t, <<"_">>) \o x : t \in TokenLists(base, other), x \in IdSuffixes}

IdInit ==
    /\ id_family \in {"S1", "S2", "L8C2"}
    /\ prd_id \in CASE id_family = "S1" -> IdsOf(S1Base, S1Other)
                    [] id_family = "S2" -> IdsOf(S2Base, S2Other)
                    [] OTHER -> IdsOf(L8Base, L8Other)
    /\ id_info = NotRun
    /\ id_safe = NotRun
    /\ id_valid = "NotRun"
    /\ id_prefix = NoPrefix

IdQuiet ==
    /\ id_family = "S1"
    /\ prd_id = <<>>
    /\ id_info = NotRun
    /\ id_safe = NotRun
    /\ id_valid = "NotRun"
    /\ id_prefix = NoPrefix

IdNext ==
    \/ IdConstruct
    \/ IdIsValid
    \/ IdConstructSafe
    \/ IdS1Prefix

(***************************************************************************)
(* Collection files of the EWoC buckets: split_tile_id,                    *)
(* tileid_to_ard_path_component, EWOCBucket._list_prds_key and the         *)
(* *_to_satio_csv methods that call it                                     *)
(***************************************************************************)
VARIABLES
    ck_writer,    \* the method called: "sar", "optical", "tir" or "agera5"
    ck_tile_id,   \* argument tile_id
    ck_pages,     \* the pages the store answers with, each a list of keys
    tile_parts,   \* what split_tile_id returned, [exc, parts]
    tile_prefix,  \* argument of _list_prds_key
    ck_token,     \* kwargs["ContinuationToken"], 0 while not set
    prds_key,     \* _list_prds_key: the set built so far
    ck_requests,  \* the list_objects_v2 requests sent
    ck_pc,        \* position of the call
    ck_exc,       \* the exception the call raised
    ck_csv        \* the rows to_csv wrote, <<"none">> while no file is written

ckVars == <<ck_writer, ck_tile_id, ck_pages, tile_parts, tile_prefix,
            ck_token, prds_key, ck_requests, ck_pc, ck_exc, ck_csv>>

\* the three parts are taken from the end of the tile id
SplitTileId_end(tile_id) ==
    IF Len(tile_id) \in {4, 5}
    THEN [exc |-> "None",
          parts |-> <<Sub(tile_id, 1, Len(tile_id) - 3),
                      Sub(tile_id, Len(tile_id) - 2, Len(tile_id) - 1),
                      Sub(tile_id, Len(tile_id), Len(tile_id))>>]
    ELSE [exc |-> "ValueError", parts |-> <<>>]

\* split_tile_id, ewoc.py lines 36-43
SplitTileId(tile_id) ==
    IF Len(tile_id) = 5
    THEN [exc |-> "None",
          parts |-> <<Slice(tile_id, 0, 2), <<tile_id[3]>>,
                      SliceFrom(tile_id, 3)>>]
    ELSE IF Len(tile_id) = 4
    THEN [exc |-> "None",
          parts |-> <<<<tile_id[1]>>, <<tile_id[2]>>, SliceFrom(tile_id, 2)>>]
    ELSE [exc |-> "ValueError", parts |-> <<>>]

\* tileid_to_ard_path_component, ewoc.py lines 55-56
TileidToArdPathComponent(tile_id) ==
    LET r == SplitTileId(tile_id)
    IN  IF r.exc # "None" THEN [exc |-> r.exc, path |-> <<>>]
        ELSE [exc |-> "None",
              path |-> r.parts[1] \o <<Slash>> \o r.parts[2] \o <<Slash>>
                          \o r.parts[3]]

\* production_id
ProductionId == <<"7">>

\* the f-string of lines 288, 320, 348 and the "AgERA5/" of line 197
TilePrefix(writer, component) ==
    CASE writer = "sar" -> ProductionId \o <<"/", "S", "A", "R", "/">> \o component
      [] writer = "optical" -> ProductionId \o <<"/", "O", "P", "T", "I", "C", "A", "L", "/">> \o component
      [] writer = "tir" -> ProductionId \o <<"/", "T", "I", "R", "/">> \o component
      [] OTHER -> <<"A", "g", "E", "R", "A", "5", "/">>

\* the directory is the key itself
PrdPath_key(k) == <<Slash>> \o k

\* str(Path("/" + key).parent): pathlib drops empty and "." segments
PrdPath(k) ==
    LET Kept(x) == x # <<>> /\ x # <<".">>
        parts == SelectSeq(Split(k), Kept)
    IN  IF Len(parts) <= 1 THEN <<Slash>>
        ELSE <<Slash>> \o JoinSlash(Front(parts))

\* lines 289, 321, 349: the id class of the writer raises ValueError on name
ArdIdRaises(writer, name) ==
    LET e == SplitOn(name, "_")
    IN  CASE writer = "sar" ->
               ~(/\ Len(e) = 6
                 /\ e[1] \in {<<"S", "1", "A">>, <<"S", "1", "B">>}
                 /\ Strptime(e[2], "%Y%m%dT%H%M%S").ok
                 /\ e[3] \in {<<"D", "E", "S">>, <<"A", "S", "C">>})
          [] writer = "optical" ->
               ~(/\ Len(e) = 5
                 /\ e[1] \in {<<"S", "2", "A">>, <<"S", "2", "B">>, <<"L", "C", "0", "8">>}
                 /\ Strptime(e[3], "%Y%m%dT%H%M%S").ok)
          [] OTHER ->
               ~(/\ Len(e) = 5
                 /\ e[1] = <<"L", "C", "0", "8">>
                 /\ Strptime(e[3], "%Y%m%dT%H%M%S").ok)

\* lines 212-245: strptime raises ValueError on the date of the directory
Agera5Raises(dir) ==
    LET e == Split(dir)
    IN  IF Len(e) = 3 THEN ~Strptime(e[3] \o <<"0", "1", "0", "1">>, "%Y%m%d").ok
        ELSE IF Len(e) = 4 /\ Len(e[4]) = 6 THEN ~Strptime(e[4], "%Y%m").ok
        ELSE IF Len(e) = 4 /\ Len(e[4]) = 8 THEN ~Strptime(e[4], "%Y%m%d").ok
        ELSE FALSE

\* the loop over the listed directories raises
RowsRaise(writer, listed) ==
    \E d \in listed :
        IF writer = "agera5" THEN Agera5Raises(d)
        ELSE ArdIdRaises(writer, Last(Split(d)))

\* the rows of the data frame: one per directory, none for a directory of
\* AgERA5 that is neither yearly, monthly nor daily
Rows(writer, listed) ==
    IF writer # "agera5" THEN listed
    ELSE {d \in listed :
            \/ Len(Split(d)) = 3
            \/ Len(Split(d)) = 4 /\ Len(Split(d)[4]) \in {6, 8}}

\* the call of a writer up to the call of _list_prds_key
CkCall ==
    /\ ck_pc = "idle"
    /\ LET c == IF ck_writer = "agera5" THEN [exc |-> "None", path |-> <<>>]
                ELSE TileidToArdPathComponent(ck_tile_id)
       IN  /\ tile_parts' = IF ck_writer = "agera5" THEN tile_parts
                            ELSE SplitTileId(ck_tile_id)
           /\ IF c.exc # "None"
              THEN /\ ck_exc' = [type |-> c.exc]
                   /\ ck_pc' = "raised"
                   /\ UNCHANGED tile_prefix
              ELSE /\ tile_prefix' = TilePrefix(ck_writer, c.path)
                   /\ ck_pc' = "list"
                   /\ UNCHANGED ck_exc
    /\ UNCHANGED <<ck_writer, ck_tile_id, ck_pages, ck_token, prds_key,
                   ck_requests, ck_csv>>

\* one turn of the loop of _list_prds_key, lines 98-114
CkList ==
    /\ ck_pc = "list"
    /\ LET n == ck_token + 1
           contents == ck_pages[n]
       IN  /\ ck_requests' = Append(ck_requests,
                  [Prefix |-> tile_prefix, ContinuationToken |-> ck_token])
           /\ IF contents = <<>>
              THEN /\ ck_exc' = [type |-> "ValueError"]
                   /\ ck_pc' = "raised"
                   /\ UNCHANGED <<prds_key, ck_token>>
              ELSE /\ prds_key' = prds_key \cup
                          {PrdPath(contents[i]) : i \in 1..Len(contents)}
                   /\ UNCHANGED ck_exc
                   /\ IF n < Len(ck_pages)
                      THEN ck_token' = n /\ UNCHANGED ck_pc
                      ELSE ck_pc' = "rows" /\ UNCHANGED ck_token
    /\ UNCHANGED <<ck_writer, ck_tile_id, ck_pages, tile_parts, tile_prefix,
                   ck_csv>>

\* the loop of the writer over the set _list_prds_key returned
CkRows ==
    /\ ck_pc = "rows"
    /\ IF RowsRaise(ck_writer, prds_key)
       THEN ck_exc' = [type |-> "ValueError"] /\ ck_pc' = "raised"
       ELSE ck_pc' = "csv" /\ UNCHANGED ck_exc
    /\ UNCHANGED <<ck_writer, ck_tile_id, ck_pages, tile_parts, tile_prefix,
                   ck_token, prds_key, ck_requests, ck_csv>>

\* pd.DataFrame(...).to_csv(filepath)
CkToCsv ==
    /\ ck_pc = "csv"
    /\ ck_csv' = <<"rows", Rows(ck_writer, prds_key)>>
    /\ ck_pc' = "done"
    /\ UNCHANGED <<ck_writer, ck_tile_id, ck_pages, tile_parts, tile_prefix,
                   ck_token, prds_key, ck_requests, ck_exc>>

\* the tile ids given: those of the tests and every string of 3 and T of
\* at most MaxTileLen characters
TileIds ==
    {<<"3", "1", "T", "C", "J">>, <<"1", "2", "3", "4">>} \cup SeqsUpTo({"3", "T"}, MaxTileLen)

\* what follows the prefix in the keys of the store
\* sar: S1A_20181208T060900_DES_TODO_02493002BF1C1710_31TCJ
\* optical: S2A_MSIL2A_20181217T105441_N9999R051T31TCJ_31TCJ
\* tir: LC08_L2SP_20190720T103000_19902902T1_31TCJ
KeyTails(writer) ==
    CASE writer = "sar" ->
           {<<"/", "S", "1", "A", "_", "2", "0", "1", "8", "1", "2", "0", "8", "T", "0", "6", "0", "9", "0", "0", "_", "D", "E", "S", "_", "T", "O", "D", "O", "_", "0", "2", "4", "9", "3", "0", "0", "2", "B", "F", "1", "C", "1", "7", "1", "0", "_", "3", "1", "T", "C", "J", "/", "a", ".", "t", "i", "f">>,
            <<"/", "S", "1", "A", "_", "2", "0", "1", "8", "1", "2", "0", "8", "T", "0", "6", "0", "9", "0", "0", "_", "D", "E", "S", "_", "T", "O", "D", "O", "_", "0", "2", "4", "9", "3", "0", "0", "2", "B", "F", "1", "C", "1", "7", "1", "0", "_", "3", "1", "T", "C", "J", "/", "b", ".", "t", "i", "f">>,
            <<"/", "x", "/", "a", ".", "t", "i", "f">>}
      [] writer = "optical" ->
           {<<"/", "S", "2", "A", "_", "M", "S", "I", "L", "2", "A", "_", "2", "0", "1", "8", "1", "2", "1", "7", "T", "1", "0", "5", "4", "4", "1", "_", "N", "9", "9", "9", "9", "R", "0", "5", "1", "T", "3", "1", "T", "C", "J", "_", "3", "1", "T", "C", "J", "/", "a", ".", "t", "i", "f">>,
            <<"/", "S", "2", "A", "_", "M", "S", "I", "L", "2", "A", "_", "2", "0", "1", "8", "1", "2", "1", "7", "T", "1", "0", "5", "4", "4", "1", "_", "N", "9", "9", "9", "9", "R", "0", "5", "1", "T", "3", "1", "T", "C", "J", "_", "3", "1", "T", "C", "J", "/", "b", ".", "t", "i", "f">>,
            <<"/", "L", "C", "0", "8", "_", "L", "2", "S", "P", "_", "2", "0", "1", "9", "0", "7", "2", "0", "_", "1", "9", "9", "0", "2", "9", "0", "2", "T", "1", "_", "3", "1", "T", "C", "J", "/", "a", ".", "t", "i", "f">>}
      [] writer = "tir" ->
           {<<"/", "L", "C", "0", "8", "_", "L", "2", "S", "P", "_", "2", "0", "1", "9", "0", "7", "2", "0", "T", "1", "0", "3", "0", "0", "0", "_", "1", "9", "9", "0", "2", "9", "0", "2", "T", "1", "_", "3", "1", "T", "C", "J", "/", "a", ".", "t", "i", "f">>,
            <<"/", "L", "C", "0", "8", "_", "L", "2", "S", "P", "_", "2", "0", "1", "9", "0", "7", "2", "0", "T", "1", "0", "3", "0", "0", "0", "_", "1", "9", "9", "0", "2", "9", "0", "2", "T", "1", "_", "3", "1", "T", "C", "J", "/", "/", "b", ".", "t", "i", "f">>,
            <<"/", "L", "C", "0", "8", "_", "L", "2", "S", "P", "_", "2", "0", "1", "9", "0", "7", "2", "0", "_", "1", "9", "9", "0", "2", "9", "0", "2", "T", "1", "_", "3", "1", "T", "C", "J", "/", "a", ".", "t", "i", "f">>}
      [] OTHER ->
           {<<"2", "0", "2", "0", "/", "a", ".", "n", "c">>, <<"2", "0", "2", "0", "/", "2", "0", "2", "0", "1", "3", "/", "a", ".", "n", "c">>, <<"2", "0", "2", "0", "/", "2", "0", "2", "0", "0", "2", "2", "9", "/", "a", ".", "n", "c">>,
            <<"2", "0", "2", "0", "/", "2", "0", "2", "0", "0", "2", "2", "9", "/">>}

\* the pages of a listing: at most MaxCkPages pages of at most two keys in
\* the order of the store, a page without key among them
CkPages(prefix, tails) ==
    LET page == {<<>>} \cup {<<prefix \o t>> : t \in tails}
                  \cup {<<prefix \o pr[1], prefix \o pr[2]>> :
                           pr \in {x \in tails \X tails : StrLess(x[1], x[2])}}
    IN  UNION {[1..k -> page] : k \in 1..MaxCkPages}

CkIdle ==
    /\ tile_parts = [exc |-> "NotRun", parts |-> <<>>]
    /\ tile_prefix = <<>>
    /\ ck_token = 0
    /\ prds_key = {}
    /\ ck_requests = <<>>
    /\ ck_pc = "idle"
    /\ ck_exc = NoExc
    /\ ck_csv = <<"none">>

CkInit ==
    /\ ck_writer \in {"sar", "optical", "tir", "agera5"}
    /\ ck_tile_id \in IF ck_writer = "agera5" THEN {<<>>} ELSE TileIds
    /\ ck_pages \in
          CkPages(IF ck_writer = "agera5" THEN <<"A", "g", "E", "R", "A", "5", "/">>
                  ELSE IF TileidToArdPathComponent(ck_tile_id).exc = "None"
                  THEN TilePrefix(ck_writer,
                                  TileidToArdPathComponent(ck_tile_id).path)
                  ELSE <<"7">>,
                  KeyTails(ck_writer))
    /\ CkIdle

\* no collection file is asked for
CkQuiet ==
    /\ ck_writer = "sar"
    /\ ck_tile_id = <<>>
    /\ ck_pages = <<>>
    /\ CkIdle

CkNext ==
    \/ CkCall
    \/ CkList
    \/ CkRows
    \/ CkToCsv

(***************************************************************************)
(* The download operations of the providers: download_prd of AWSS1Bucket,  *)
(* AWSS2L1CBucket, AWSS2L2ABucket, AWSS2L2ACOGSBucket and AWSL8C2L2Bucket,  *)
(* download_s1_prd and download_s2_prd of CreodiasBucket, download_tiles    *)
(* and to_gdal_path of AWSCopDEMBucket                                     *)
(***************************************************************************)
VARIABLES
    pd_op,          \* the operation called
    pd_id,          \* prd_id, or the CopDEM tile id
    pd_args,        \* [safe_format, mask_only, to_sen2cor, resolution]
    pd_pages,       \* the pages the store lists under a product prefix
    pd_folders,     \* the folder names the store lists under products_path
    pd_dirs,        \* directories below out_dirpath_root
    pd_files,       \* files below out_dirpath_root
    pd_start,       \* [dirs, files] when the current call started
    pd_info,        \* the descriptor the call parsed
    pd_prefix,      \* the key prefix the call derived, <<>> before
    pd_prev_prefix, \* the key prefix the previous call derived
    pd_net,         \* requests the current call sent
    pd_pc,          \* position of the call
    pd_exc,         \* the exception the call raised
    pd_result,      \* what the call returned
    pd_calls,       \* number of calls started
    pd_changes      \* number of changes others made to the store

pdVars == <<pd_op, pd_id, pd_args, pd_pages, pd_folders, pd_dirs, pd_files,
            pd_start, pd_info, pd_prefix, pd_prev_prefix, pd_net, pd_pc,
            pd_exc, pd_result, pd_calls, pd_changes>>

AwsS2Ops == {"AWSS2L1CBucket.download_prd", "AWSS2L2ABucket.download_prd",
             "AWSS2L2ACOGSBucket.download_prd"}

PrdOps == {"AWSS1Bucket.download_prd", "AWSL8C2L2Bucket.download_prd",
           "CreodiasBucket.download_s1_prd", "CreodiasBucket.download_s2_prd"}
              \cup AwsS2Ops

CopDEMOps == {"AWSCopDEMBucket.download_tiles", "AWSCopDEMBucket.to_gdal_path"}

\* the identifier class the operation builds
FamilyOf(op) ==
    IF op \in {"AWSS1Bucket.download_prd", "CreodiasBucket.download_s1_prd"}
    THEN "S1"
    ELSE IF op = "AWSL8C2L2Bucket.download_prd" THEN "L8C2" ELSE "S2"

\* aws.py 97, 167, 387 and creodias.py 53: out_dirpath_root / prd_id.split(".")[0];
\* creodias.py 87: out_dirpath / prd_id
OutDirpath(op, id) ==
    IF op = "CreodiasBucket.download_s2_prd" THEN <<id>> ELSE <<BeforeDot(id)>>

\* the directories made before the identifier is parsed: aws.py 98, 168-172,
\* 388, creodias.py 54, 88
MadeDirs(op, id) ==
    IF op \in AwsS2Ops
    THEN {OutDirpath(op, id), OutDirpath(op, id) \o <<<<"p", "r", "o", "d", "u", "c", "t">>>>,
          OutDirpath(op, id) \o <<<<"t", "i", "l", "e">>>>}
    ELSE {OutDirpath(op, id)}

\* two digits, as %m and %d of strftime write them
Pad2(n) == IF n < 10 THEN <<"0">> \o StrOfInt(n) ELSE StrOfInt(n)

\* date().strftime("%Y%m%d") of a year of four digits
StrftimeYmd(t) == StrOfInt(t.year) \o Pad2(t.month) \o Pad2(t.day)

\* date().strftime("/%Y/%m/%d/")
StrftimeCreodias(t) ==
    <<Slash>> \o StrOfInt(t.year) \o <<Slash>> \o Pad2(t.month) \o <<Slash>>
        \o Pad2(t.day) \o <<Slash>>

\* Python's s.lstrip("0")
RECURSIVE Lstrip0(_)
Lstrip0(s) == IF s # <<>> /\ Head(s) = "0" THEN Lstrip0(Tail(s)) ELSE s

\* aws.py 175-183: prefix_components
PrefixComponents(f) ==
    <<Lstrip0(Slice(f.tile_id, 0, 2)), Slice(f.tile_id, 2, 3),
      Slice(f.tile_id, 3, 5),
      StrOfInt(f.datatake_sensing_start_time.year),
      StrOfInt(f.datatake_sensing_start_time.month)>>

\* aws.py 184-186 and 226-231: products_path, the prefix _list_folders lists
S2ProductsPath(f, cogs) ==
    IF cogs
    THEN Join(<<<<"s", "e", "n", "t", "i", "n", "e", "l", "-", "s", "2", "-", "l", "2", "a", "-", "c", "o", "g", "s">>>> \o PrefixComponents(f), <<Slash>>)
            \o <<Slash>>
    ELSE Join(<<<<"t", "i", "l", "e", "s">>>> \o PrefixComponents(f)
                \o <<StrOfInt(f.datatake_sensing_start_time.day)>>, <<Slash>>)
            \o <<Slash>>

\* aws.py 212-223: prd_prefix of the legacy layout
S2PrdPrefix(f, id) ==
    Join(<<<<"p", "r", "o", "d", "u", "c", "t", "s">>, StrOfInt(f.datatake_sensing_start_time.year),
           StrOfInt(f.datatake_sensing_start_time.month),
           StrOfInt(f.datatake_sensing_start_time.day), BeforeDot(id)>>,
         <<Slash>>) \o <<Slash>>

\* what _list_folders returns: the Prefix of every CommonPrefixes entry
ListFolders(path, names) ==
    [i \in 1..Len(names) |-> path \o names[i] \o <<Slash>>]

\* aws.py 187-191 and 232-233: product_name or folder_number, <<>> when
\* _find_product leaves prd_name unbound
S2FoundName(f, cogs, names) ==
    IF cogs
    THEN FindProduct(ListFolders(S2ProductsPath(f, cogs), names),
                     StrftimeYmd(f.datatake_sensing_start_time), <<>>)
    ELSE FindAwsFolderNumber(ListFolders(S2ProductsPath(f, cogs), names),
                             <<"0">>)

\* aws.py 193-194 and 234-236: prd_prefix of the COG layout, tile_prefix of
\* the legacy layout
S2FoundPrefix(f, cogs, name) == S2ProductsPath(f, cogs) \o name \o <<Slash>>

\* aws.py 392-406: prd_prefix of AWSL8C2L2Bucket.download_prd
L8KeyPrefix(f, id) ==
    Join(<<<<"c", "o", "l", "l", "e", "c", "t", "i", "o", "n", "0", "2">>, <<"l", "e", "v", "e", "l", "-", "2">>, <<"s", "t", "a", "n", "d", "a", "r", "d">>, <<"o", "l", "i", "-", "t", "i", "r", "s">>,
           StrOfInt(f.acquisition_date.year), f.wrs2_path, f.wrs2_row, id>>,
         <<Slash>>) \o <<Slash>>

\* creodias.py 56-65 and 90-99
CreodiasPrefix(family, f, id) ==
    IF family = "S1"
    THEN <<"S", "e", "n", "t", "i", "n", "e", "l", "-", "1", "/", "S", "A", "R", "/">> \o f.product_type
            \o StrftimeCreodias(f.start_time) \o id \o <<Slash>>
    ELSE <<"S", "e", "n", "t", "i", "n", "e", "l", "-", "2", "/", "M", "S", "I", "/">> \o f.product_level
            \o StrftimeCreodias(f.datatake_sensing_start_time) \o id
            \o <<Slash>>

\* the prefix an operation derives from the descriptor alone
DescriptorPrefix(op, f, id) ==
    CASE op = "AWSS1Bucket.download_prd" -> S1KeyPrefix(id).prefix
      [] op = "AWSL8C2L2Bucket.download_prd" -> L8KeyPrefix(f, id)
      [] op \in AwsS2Ops -> S2PrdPrefix(f, id)
      [] OTHER -> CreodiasPrefix(FamilyOf(op), f, id)

\* the bucket the object of the operation is bound to: aws.py 77, 269, 304,
\* 336, 366, 458-463 and creodias.py 29-34
PdBucket(op, resolution) ==
    CASE op = "AWSS1Bucket.download_prd" -> "sentinel-s1-l1c"
      [] op = "AWSS2L1CBucket.download_prd" -> "sentinel-s2-l1c"
      [] op = "AWSS2L2ABucket.download_prd" -> "sentinel-s2-l2a"
      [] op = "AWSS2L2ACOGSBucket.download_prd" -> "sentinel-cogs"
      [] op = "AWSL8C2L2Bucket.download_prd" -> "usgs-landsat"
      [] op \in CopDEMOps -> CopDEMBucketOf(resolution)
      [] OTHER -> "DIAS"

ListRequest(b, prefix) ==
    [op |-> "list_objects_v2", Bucket |-> b, Key |-> prefix, Filename |-> <<>>]

FileRequest(b, k, path) ==
    [op |-> "download_file", Bucket |-> b, Key |-> k, Filename |-> path]

\* EOBucket._download_prd as a whole: one list request per page, the keys of
\* a page fetched unless the destination is there, EOBucketException at the
\* first page without "Contents"
DownloadPrd(b, prefix, out, pages, fl) ==
    LET F[i \in 0..Len(pages)] ==
            IF i = 0 THEN [files |-> fl, net |-> <<>>, exc |-> "None"]
            ELSE LET p == F[i - 1]
                     listed == Append(p.net, ListRequest(b, prefix))
                     Absent(n) == (out \o <<n>>) \notin p.files
                     fetched == SelectSeq(pages[i], Absent)
                 IN  IF p.exc # "None" THEN p
                     ELSE IF pages[i] = <<>>
                     THEN [files |-> p.files, net |-> listed,
                           exc |-> "EOBucketException"]
                     ELSE [files |-> p.files \cup
                                       {out \o <<n>> : n \in Range(pages[i])},
                           net |-> listed \o
                                     [j \in 1..Len(fetched) |->
                                        FileRequest(b, prefix \o fetched[j],
                                                    out \o <<fetched[j]>>)],
                           exc |-> "None"]
    IN  F[Len(pages)]

\* two calls of _download_prd one after the other; the second is not made
\* when the first raised
DownloadBoth(b, prefix1, out1, prefix2, out2, pages, fl) ==
    LET a == DownloadPrd(b, prefix1, out1, pages, fl)
        c == DownloadPrd(b, prefix2, out2, pages, a.files)
    IN  IF a.exc # "None" THEN a
        ELSE [files |-> c.files, net |-> a.net \o c.net, exc |-> c.exc]

\* download_file of one key to one path
DownloadFile(b, k, path, fl) ==
    [files |-> fl \cup {path}, net |-> <<FileRequest(b, k, path)>>,
     exc |-> "None"]

\* what follows the derivation of the prefixes: aws.py 117-118, 197-210,
\* 239-260, 408-410, creodias.py 66, 100-101
Transfer(op, f, id, args, prefixes, pages, fl) ==
    LET b == PdBucket(op, args.resolution)
        out == OutDirpath(op, id)
    IN  IF op \notin AwsS2Ops
        THEN DownloadPrd(b, prefixes[1], out, pages, fl)
        ELSE IF op = "AWSS2L2ACOGSBucket.download_prd"
        THEN IF args.mask_only
             THEN DownloadFile(b, prefixes[1] \o <<"SCL.tif">>,
                               out \o <<"SCL.tif">>, fl)
             ELSE DownloadPrd(b, prefixes[1], out, pages, fl)
        ELSE IF f.product_level = <<"L", "2", "A">>
        THEN IF args.mask_only
             THEN DownloadFile("sentinel-s2-l2a",
                               prefixes[2] \o <<"R20m/", "SCL.jp2">>,
                               out \o <<"SCL.jp2">>, fl)
             ELSE DownloadBoth(b, prefixes[1], out \o <<<<"p", "r", "o", "d", "u", "c", "t">>>>,
                               prefixes[2], out \o <<<<"t", "i", "l", "e">>>>, pages, fl)
        ELSE DownloadBoth(b, prefixes[1], out \o <<<<"t", "i", "l", "e">>>>,
                          prefixes[2], out \o <<<<"p", "r", "o", "d", "u", "c", "t">>>>, pages, fl)

\* safe_format.py 47-50: the name of the SAFE directory
SafePrdId(id) ==
    IF EndsWith(id, <<".", "S", "A", "F", "E">>) THEN id ELSE id \o <<".", "S", "A", "F", "E">>

\* the paths at or below directory d
Below(S, d) == {p \in S : StartsWith(p, d)}

\* Path.rmdir: the directory must be empty
RmdirOk(dr, fl, d) == Below(dr, d) = {d} /\ Below(fl, d) = {}

\* Python's s.replace(old, new) for a non-empty old
RECURSIVE StrReplace(_, _, _)
StrReplace(s, old, new) ==
    IF Len(s) < Len(old) THEN s
    ELSE IF StartsWith(s, old)
    THEN new \o StrReplace(SliceFrom(s, Len(old)), old, new)
    ELSE <<Head(s)>> \o StrReplace(Tail(s), old, new)

\* AWSCopDEMBucket.__init__, aws.py 458-463: _copdem_prefix
CopdemPrefix(resolution) ==
    IF resolution = "1s" THEN <<"C", "o", "p", "e", "r", "n", "i", "c", "u", "s", "_", "D", "S", "M", "_", "C", "O", "G", "_", "1", "0", "_">>
    ELSE <<"C", "o", "p", "e", "r", "n", "i", "c", "u", "s", "_", "D", "S", "M", "_", "C", "O", "G", "_", "3", "0", "_">>

\* aws.py 467: _copdem_suffix
CopdemSuffix == <<"_", "0", "0", "_", "D", "E", "M">>

\* aws.py 485-491: copdem_tile_id_aws
CopdemTileIdAws(resolution, t) ==
    CopdemPrefix(resolution) \o Slice(t, 0, 3) \o <<"_", "0", "0", "_">> \o SliceFrom(t, 3)
        \o CopdemSuffix

\* aws.py 492-498: the name of the local file
CopdemFilename(resolution, t, to_sen2cor) ==
    IF to_sen2cor
    THEN StrReplace(CopdemTileIdAws(resolution, t) \o <<".", "t", "i", "f">>, <<"_", "C", "O", "G", "_">>, <<"_">>)
    ELSE CopdemTileIdAws(resolution, t) \o <<".", "t", "i", "f">>

\* aws.py 499: copdem_object_key
CopdemObjectKey(resolution, t) ==
    CopdemTileIdAws(resolution, t) \o <<Slash>>
        \o CopdemTileIdAws(resolution, t) \o <<".", "t", "i", "f">>

\* the key is the file name alone
ComputeKey_flat(resolution, t) ==
    CopdemPrefix(resolution) \o Slice(t, 0, 3) \o <<"_", "0", "0", "_">> \o SliceFrom(t, 3)
        \o CopdemSuffix \o <<".", "t", "i", "f">>

\* AWSCopDEMBucket._compute_key, aws.py 509-513
ComputeKey(resolution, t) ==
    LET copdem_tile_id_aws ==
            CopdemPrefix(resolution) \o Slice(t, 0, 3) \o <<"_", "0", "0", "_">>
                \o SliceFrom(t, 3) \o CopdemSuffix
    IN  copdem_tile_id_aws \o <<Slash>> \o copdem_tile_id_aws \o <<".", "t", "i", "f">>

\* AWSCopDEMBucket.to_gdal_path, aws.py 515-516
ToGdalPath(resolution, t) ==
    <<"/vsis3/", CopDEMBucketOf(resolution), Slash>> \o ComputeKey(resolution, t)

\* a call of the operation with the arguments of the model starts
PdCall ==
    /\ pd_pc \in {"idle", "done", "raised"}
    /\ pd_calls < MaxPdCalls
    /\ pd_calls' = pd_calls + 1
    /\ pd_start' = [dirs |-> pd_dirs, files |-> pd_files]
    /\ pd_prev_prefix' = IF pd_prefix # <<>> THEN pd_prefix ELSE pd_prev_prefix
    /\ pd_prefix' = <<>>
    /\ pd_info' = NotRun
    /\ pd_net' = <<>>
    /\ pd_exc' = "None"
    /\ pd_result' = <<>>
    /\ pd_pc' = IF pd_op \in PrdOps THEN "mkdir" ELSE "copdem"
    /\ UNCHANGED <<pd_op, pd_id, pd_args, pd_pages, pd_folders, pd_dirs,
                   pd_files, pd_changes>>

\* aws.py 97-98, 167-172, 387-388, creodias.py 53-54, 87-88
PdMkdir ==
    /\ pd_pc = "mkdir"
    /\ pd_dirs' = pd_dirs \cup MadeDirs(pd_op, pd_id)
    /\ pd_pc' = "parse"
    /\ UNCHANGED <<pd_op, pd_id, pd_args, pd_pages, pd_folders, pd_files,
                   pd_start, pd_info, pd_prefix, pd_prev_prefix, pd_net,
                   pd_exc, pd_result, pd_calls, pd_changes>>

\* aws.py 100, 174, 390, creodias.py 55, 89: the descriptor is built; what
\* its constructor raises leaves the operation
PdParse ==
    /\ pd_pc = "parse"
    /\ pd_info' = PrdIdInfo(FamilyOf(pd_op), pd_id)
    /\ IF pd_info'.exc # "None"
       THEN /\ pd_exc' = pd_info'.exc
            /\ pd_pc' = "raised"
       ELSE /\ pd_pc' = "prefix"
            /\ UNCHANGED pd_exc
    /\ UNCHANGED <<pd_op, pd_id, pd_args, pd_pages, pd_folders, pd_dirs,
                   pd_files, pd_start, pd_prefix, pd_prev_prefix, pd_net,
                   pd_result, pd_calls, pd_changes>>

\* the key prefixes are derived: from the descriptor alone, or for the AWS
\* S2 buckets with the folders _list_folders finds in the store
PdPrefix ==
    /\ pd_pc = "prefix"
    /\ LET f == pd_info.fields
           cogs == pd_op = "AWSS2L2ACOGSBucket.download_prd"
           name == S2FoundName(f, cogs, pd_folders)
       IN  IF pd_op \notin AwsS2Ops
           THEN /\ pd_prefix' = <<DescriptorPrefix(pd_op, f, pd_id)>>
                /\ pd_pc' = "transfer"
                /\ UNCHANGED <<pd_net, pd_exc, pd_dirs>>
           ELSE /\ pd_net' = Append(pd_net,
                      ListRequest(PdBucket(pd_op, pd_args.resolution),
                                  S2ProductsPath(f, cogs)))
                /\ IF cogs /\ name = <<>>
                   THEN /\ pd_exc' = "UnboundLocalError"
                        /\ pd_pc' = "raised"
                        /\ UNCHANGED <<pd_prefix, pd_dirs>>
                   ELSE IF ~cogs /\ name = <<"ValueError">>
                   THEN /\ pd_exc' = "ValueError"
                        /\ pd_pc' = "raised"
                        /\ UNCHANGED <<pd_prefix, pd_dirs>>
                   ELSE /\ pd_prefix' =
                             IF cogs THEN <<S2FoundPrefix(f, cogs, name)>>
                             ELSE <<S2PrdPrefix(f, pd_id),
                                    S2FoundPrefix(f, cogs, name)>>
                        /\ pd_dirs' =
                             IF cogs
                             THEN pd_dirs \cup
                                    {OutDirpath(pd_op, pd_id) \o <<name>>}
                             ELSE pd_dirs
                        /\ pd_pc' = "transfer"
                        /\ UNCHANGED pd_exc
    /\ UNCHANGED <<pd_op, pd_id, pd_args, pd_pages, pd_folders, pd_files,
                   pd_start, pd_info, pd_prev_prefix, pd_result, pd_calls,
                   pd_changes>>

\* the transfers; aws.py 119 catches EOBucketException in AWSS1Bucket, the
\* other operations let it through
PdTransfer ==
    /\ pd_pc = "transfer"
    /\ LET r == Transfer(pd_op, pd_info.fields, pd_id, pd_args, pd_prefix,
                         pd_pages, pd_files)
       IN  /\ pd_files' = r.files
           /\ pd_net' = pd_net \o r.net
           /\ IF r.exc = "None"
              THEN IF (pd_op = "AWSS1Bucket.download_prd" /\ pd_args.safe_format)
                        \/ pd_op = "AWSS2L1CBucket.download_prd"
                   THEN /\ pd_pc' = "to_safe"
                        /\ UNCHANGED <<pd_exc, pd_result>>
                   ELSE /\ pd_pc' = "done"
                        /\ pd_result' = OutDirpath(pd_op, pd_id)
                        /\ UNCHANGED pd_exc
              ELSE IF pd_op = "AWSS1Bucket.download_prd"
                   THEN /\ pd_pc' = "except"
                        /\ UNCHANGED <<pd_exc, pd_result>>
                   ELSE /\ pd_pc' = "raised"
                        /\ pd_exc' = r.exc
                        /\ UNCHANGED pd_result
    /\ UNCHANGED <<pd_op, pd_id, pd_args, pd_pages, pd_folders, pd_dirs,
                   pd_start, pd_info, pd_prefix, pd_prev_prefix, pd_calls,
                   pd_changes>>

\* aws.py 119-122: out_dirpath.rmdir(), then AWSDownloadError; rmdir raises
\* OSError on a directory that is not empty
PdExcept ==
    /\ pd_pc = "except"
    /\ IF RmdirOk(pd_dirs, pd_files, OutDirpath(pd_op, pd_id))
       THEN /\ pd_dirs' = pd_dirs \ {OutDirpath(pd_op, pd_id)}
            /\ pd_exc' = "AWSDownloadError"
       ELSE /\ pd_exc' = "OSError"
            /\ UNCHANGED pd_dirs
    /\ pd_files' = pd_files
    /\ pd_pc' = "raised"
    /\ UNCHANGED <<pd_op, pd_id, pd_args, pd_pages, pd_folders, pd_start,
                   pd_info, pd_prefix, pd_prev_prefix, pd_net, pd_result,
                   pd_calls, pd_changes>>

\* aws.py 124-130 and 292-294: aws_to_safe(out_dirpath, prd_id) returns the
\* SAFE directory after shutil.rmtree of the flat one, or raises
PdToSafe ==
    /\ pd_pc = "to_safe"
    /\ LET out == OutDirpath(pd_op, pd_id)
           safe == <<SafePrdId(pd_id)>>
       IN  \E outcome \in {"ok", "S1SafeConversionError", "error"} :
             /\ outcome = "S1SafeConversionError"
                    => pd_op = "AWSS1Bucket.download_prd"
             /\ CASE outcome = "ok" ->
                       /\ pd_dirs' = (pd_dirs \ Below(pd_dirs, out)) \cup {safe}
                       /\ pd_files' = (pd_files \ Below(pd_files, out))
                                         \cup {safe \o <<<<"m", "a", "n", "i", "f", "e", "s", "t", ".", "s", "a", "f", "e">>>>}
                       /\ pd_result' = safe
                       /\ pd_pc' = "done"
                       /\ UNCHANGED pd_exc
                  [] outcome = "S1SafeConversionError" ->
                       /\ pd_dirs' = pd_dirs \ Below(pd_dirs, out)
                       /\ pd_files' = pd_files \ Below(pd_files, out)
                       /\ pd_exc' = "AWSDownloadError"
                       /\ pd_pc' = "raised"
                       /\ UNCHANGED pd_result
                  [] OTHER ->
                       /\ pd_dirs' = pd_dirs \cup {safe}
                       /\ pd_exc' = "Exception"
                       /\ pd_pc' = "raised"
                       /\ UNCHANGED <<pd_files, pd_result>>
    /\ UNCHANGED <<pd_op, pd_id, pd_args, pd_pages, pd_folders, pd_start,
                   pd_info, pd_prefix, pd_prev_prefix, pd_net, pd_calls,
                   pd_changes>>

\* AWSCopDEMBucket.download_tiles, aws.py 483-507
PdDownloadTiles ==
    /\ pd_pc = "copdem"
    /\ pd_op = "AWSCopDEMBucket.download_tiles"
    /\ LET res == pd_args.resolution
           Path_(t) == <<CopdemFilename(res, t, pd_args.to_sen2cor)>>
       IN  /\ pd_net' =
                [i \in 1..Len(pd_args.tiles) |->
                    FileRequest(PdBucket(pd_op, res),
                                CopdemObjectKey(res, pd_args.tiles[i]),
                                Path_(pd_args.tiles[i]))]
           /\ pd_files' = pd_files \cup
                {Path_(pd_args.tiles[i]) : i \in 1..Len(pd_args.tiles)}
    /\ pd_pc' = "done"
    /\ UNCHANGED <<pd_op, pd_id, pd_args, pd_pages, pd_folders, pd_dirs,
                   pd_start, pd_info, pd_prefix, pd_prev_prefix, pd_exc,
                   pd_result, pd_calls, pd_changes>>

\* AWSCopDEMBucket.to_gdal_path of the first tile id
PdToGdalPath ==
    /\ pd_pc = "copdem"
    /\ pd_op = "AWSCopDEMBucket.to_gdal_path"
    /\ pd_result' = ToGdalPath(pd_args.resolution, pd_args.tiles[1])
    /\ pd_pc' = "done"
    /\ UNCHANGED <<pd_op, pd_id, pd_args, pd_pages, pd_folders, pd_dirs,
                   pd_files, pd_start, pd_info, pd_prefix, pd_prev_prefix,
                   pd_net, pd_exc, pd_calls, pd_changes>>

\* the names of the folders the store lists under products_path
PdFolderNames(op) ==
    IF op = "AWSS2L2ACOGSBucket.download_prd"
    THEN {<<"S", "2", "A", "_", "5", "3", "N", "M", "J", "_", "2", "0", "2", "1", "0", "7", "0", "8", "_", "0", "_", "L", "2", "A">>, <<"S", "2", "A", "_", "5", "3", "N", "M", "J", "_", "2", "0", "2", "1", "0", "7", "0", "8", "_", "1", "_", "L", "2", "A">>,
          <<"S", "2", "A", "_", "5", "3", "N", "M", "J", "_", "2", "0", "2", "1", "0", "7", "0", "9", "_", "0", "_", "L", "2", "A">>}
    ELSE IF op \in AwsS2Ops THEN {<<"0">>, <<"1">>, <<"2">>}
    ELSE {}

PdFolderLists(op) ==
    {q \in SeqsUpTo(PdFolderNames(op), MaxPdFolders) :
        \A i, j \in 1..Len(q) : i # j => q[i] # q[j]}

\* somebody else writes to the bucket between two calls: the folders the
\* store lists under products_path change
PdStoreChange ==
    /\ pd_pc \in {"done", "raised"}
    /\ pd_changes < MaxPdChanges
    /\ pd_changes' = pd_changes + 1
    /\ pd_folders' \in PdFolderLists(pd_op) \ {pd_folders}
    /\ UNCHANGED <<pd_op, pd_id, pd_args, pd_pages, pd_dirs, pd_files,
                   pd_start, pd_info, pd_prefix, pd_prev_prefix, pd_net,
                   pd_pc, pd_exc, pd_result, pd_calls>>

\* the identifiers given to the operations: well formed, with a token that
\* the constructor rejects, with a token too short, with a token missing;
\* each with and without ".SAFE"
PdTokenLists(family) ==
    CASE family = "S1" ->
           {S1Base, Replace(S1Base, 1 :> <<"S", "1", "C">>), Replace(S1Base, 3 :> <<"G", "R", "D">>),
            Front(S1Base)}
      [] family = "S2" ->
           {S2Base, Replace(S2Base, 2 :> <<"M", "S", "I", "L", "2", "A">>),
            Replace(S2Base, 6 :> <<"T", "5", "3", "N", "M">>), Front(S2Base)}
      [] OTHER ->
           {L8Base, Replace(L8Base, 7 :> <<"R", "T">>), Front(L8Base)}

PdIds(family) ==
    {Join(t, <<"_">>) \o x : t \in PdTokenLists(family),
                             x \in {<<>>, <<".", "S", "A", "F", "E">>}}

CopdemTileIds == {<<"N", "4", "3", "E", "0", "0", "1">>, <<"S", "0", "1", "W", "0", "7", "2">>, <<"N", "4">>}

PdPages ==
    {<< <<<<"a">>>> >>, << <<>> >>, << <<<<"a">>, <<"b">>>> >>, << <<<<"a">>>>, <<<<"b">>>> >>,
     << <<<<"a">>>>, <<>> >>}

DefaultArgs ==
    [safe_format |-> FALSE, mask_only |-> FALSE, to_sen2cor |-> FALSE,
     resolution |-> "1s", tiles |-> <<>>]

PdArgs(op) ==
    CASE op \in {"AWSS1Bucket.download_prd", "AWSS2L1CBucket.download_prd"} ->
           {[DefaultArgs EXCEPT !.safe_format = s] : s \in BOOLEAN}
      [] op \in {"AWSS2L2ABucket.download_prd",
                 "AWSS2L2ACOGSBucket.download_prd"} ->
           {[DefaultArgs EXCEPT !.mask_only = m] : m \in BOOLEAN}
      [] op = "AWSCopDEMBucket.download_tiles" ->
           {[DefaultArgs EXCEPT !.to_sen2cor = s, !.resolution = r, !.tiles = q] :
                s \in BOOLEAN, r \in {"1s", "3s"},
                q \in SeqsUpTo(CopdemTileIds, MaxTiles)}
      [] op = "AWSCopDEMBucket.to_gdal_path" ->
           {[DefaultArgs EXCEPT !.resolution = r, !.tiles = <<t>>] :
                r \in {"1s", "3s"}, t \in CopdemTileIds}
      [] OTHER -> {DefaultArgs}

PdIdle ==
    /\ pd_dirs = {}
    /\ pd_files = {}
    /\ pd_start = [dirs |-> {}, files |-> {}]
    /\ pd_info = NotRun
    /\ pd_prefix = <<>>
    /\ pd_prev_prefix = <<>>
    /\ pd_net = <<>>
    /\ pd_pc = "idle"
    /\ pd_exc = "None"
    /\ pd_result = <<>>
    /\ pd_calls = 0
    /\ pd_changes = 0

PdInit ==
    /\ pd_op \in PrdOps \cup CopDEMOps
    /\ pd_id \in IF pd_op \in PrdOps THEN PdIds(FamilyOf(pd_op)) ELSE {<<>>}
    /\ pd_args \in PdArgs(pd_op)
    /\ pd_pages \in IF pd_op \in PrdOps THEN PdPages ELSE {<< <<>> >>}
    /\ pd_folders \in PdFolderLists(pd_op)
    /\ PdIdle

\* no operation of a provider is called
PdQuiet ==
    /\ pd_op = "AWSS1Bucket.download_prd"
    /\ pd_id = <<>>
    /\ pd_args = DefaultArgs
    /\ pd_pages = << <<>> >>
    /\ pd_folders = <<>>
    /\ PdIdle

PdNext ==
    \/ PdCall
    \/ PdMkdir
    \/ PdParse
    \/ PdPrefix
    \/ PdTransfer
    \/ PdExcept
    \/ PdToSafe
    \/ PdDownloadTiles
    \/ PdToGdalPath
    \/ PdStoreChange

(***************************************************************************)
(* Two calls of EOBucket._download_prd that run at the same time on the    *)
(* same prefix and destination, each in a process of its own.  The steps   *)
(* are the requests and system calls of lines 300-343: the list request,   *)
(* the test of output_filepath.exists(), and download_file.                *)
(***************************************************************************)
VARIABLES
    cc_store,    \* the keys the store lists under the prefix, one page
    cc_files,    \* local files: path -> key the content was fetched from
    cc_dirs,     \* local directories
    cc_contents, \* per process: response["Contents"]
    cc_pc,       \* per process: position of the call
    cc_idx,      \* per process: position of the for loop
    cc_events    \* what the processes did, in the order it happened

ccVars == <<cc_store, cc_files, cc_dirs, cc_contents, cc_pc, cc_idx,
            cc_events>>

Procs == {1, 2}

CcPrefix == <<"a", "/">>

\* the destination of the key under the common out_dirpath: lines 317-320
CcPath(k) == OutputFilepath(OutDir, Filename(k, CcPrefix))

\* line 300: list_objects_v2
CcList(p) ==
    /\ cc_pc[p] = "list"
    /\ cc_contents' = [cc_contents EXCEPT ![p] = cc_store]
    /\ cc_idx' = [cc_idx EXCEPT ![p] = 1]
    /\ cc_pc' = [cc_pc EXCEPT ![p] = "iter"]
    /\ cc_events' = Append(cc_events,
          [proc |-> p, op |-> "list", path |-> <<>>, found |-> FALSE])
    /\ UNCHANGED <<cc_store, cc_files, cc_dirs>>

\* lines 303-322 for one object: the directory is made and the destination
\* is tested; the transfer is the next step of the process
CcExists(p) ==
    /\ cc_pc[p] = "iter"
    /\ cc_idx[p] <= Len(cc_contents[p])
    /\ LET obj == cc_contents[p][cc_idx[p]]
           path == CcPath(obj)
       IN  IF IsFile(obj)
           THEN /\ cc_dirs' = MkdirParents(cc_dirs, Parent(path))
                /\ cc_events' = Append(cc_events,
                      [proc |-> p, op |-> "exists", path |-> path,
                       found |-> Exists(cc_files, cc_dirs', path)])
                /\ IF NeedsDownload(cc_files, cc_dirs', path)
                   THEN /\ cc_pc' = [cc_pc EXCEPT ![p] = "get"]
                        /\ UNCHANGED cc_idx
                   ELSE /\ cc_idx' = [cc_idx EXCEPT ![p] = @ + 1]
                        /\ UNCHANGED cc_pc
           ELSE /\ cc_idx' = [cc_idx EXCEPT ![p] = @ + 1]
                /\ UNCHANGED <<cc_dirs, cc_events, cc_pc>>
    /\ UNCHANGED <<cc_store, cc_files, cc_contents>>

\* lines 328-333: download_file writes the destination
CcGet(p) ==
    /\ cc_pc[p] = "get"
    /\ LET obj == cc_contents[p][cc_idx[p]]
           path == CcPath(obj)
       IN  /\ cc_events' = Append(cc_events,
                 [proc |-> p, op |-> "get", path |-> path,
                  found |-> Exists(cc_files, cc_dirs, path)])
           /\ cc_files' = [q \in DOMAIN cc_files \cup {path} |->
                             IF q = path THEN obj ELSE cc_files[q]]
    /\ cc_idx' = [cc_idx EXCEPT ![p] = @ + 1]
    /\ cc_pc' = [cc_pc EXCEPT ![p] = "iter"]
    /\ UNCHANGED <<cc_store, cc_dirs, cc_contents>>

\* lines 349-353: the only page carries no token, the call returns
CcReturn(p) ==
    /\ cc_pc[p] = "iter"
    /\ cc_idx[p] > Len(cc_contents[p])
    /\ cc_pc' = [cc_pc EXCEPT ![p] = "done"]
    /\ UNCHANGED <<cc_store, cc_files, cc_dirs, cc_contents, cc_idx,
                   cc_events>>

\* the page the store lists: keys under a/ in ascending order
CcStores ==
    {l \in SeqsUpTo({<<"a", "/", "b">>, <<"a", "/", "c">>,
                     <<"a", "/", "c", "/">>}, MaxCcKeys) :
        /\ l # <<>>
        /\ \A i \in 1..(Len(l) - 1) : StrLess(l[i], l[i + 1])}

CcStarted ==
    /\ cc_dirs = {<<RootSeg>>, OutDir}
    /\ cc_contents = [p \in Procs |-> <<>>]
    /\ cc_idx = [p \in Procs |-> 0]
    /\ cc_events = <<>>

CcInit ==
    /\ cc_store \in CcStores
    /\ cc_files \in InitialFiles
    /\ cc_pc = [p \in Procs |-> "list"]
    /\ CcStarted

\* no concurrent calls are made
CcQuiet ==
    /\ cc_store = <<>>
    /\ cc_files = << >>
    /\ cc_pc = [p \in Procs |-> "done"]
    /\ CcStarted

CcNext ==
    \E p \in Procs :
        \/ CcList(p)
        \/ CcExists(p)
        \/ CcGet(p)
        \/ CcReturn(p)

(***************************************************************************)
(* Specifications                                                          *)
(***************************************************************************)
vars == <<dlVars, upVars, bkVars, sfVars, fdVars, idVars, ckVars, pdVars, ccVars>>

\* one component runs, the others stay as constructed
InitDownload ==
    DlInit /\ UpQuiet /\ BkQuiet /\ SfQuiet /\ FdQuiet /\ IdQuiet /\ CkQuiet
        /\ PdQuiet /\ CcQuiet

InitUpload ==
    UpInit /\ DlQuiet /\ BkQuiet /\ SfQuiet /\ FdQuiet /\ IdQuiet /\ CkQuiet
        /\ PdQuiet /\ CcQuiet

InitBucket ==
    BkInit /\ DlQuiet /\ UpQuiet /\ SfQuiet /\ FdQuiet /\ IdQuiet /\ CkQuiet
        /\ PdQuiet /\ CcQuiet

InitSafe ==
    (S1Init \/ S2Init)
        /\ DlQuiet /\ UpQuiet /\ BkQuiet /\ FdQuiet /\ IdQuiet /\ CkQuiet
        /\ PdQuiet /\ CcQuiet

InitFind ==
    FdInit /\ DlQuiet /\ UpQuiet /\ BkQuiet /\ SfQuiet /\ IdQuiet /\ CkQuiet
        /\ PdQuiet /\ CcQuiet

InitPrdId ==
    IdInit /\ DlQuiet /\ UpQuiet /\ BkQuiet /\ SfQuiet /\ FdQuiet /\ CkQuiet
        /\ PdQuiet /\ CcQuiet

InitProvider ==
    PdInit /\ DlQuiet /\ UpQuiet /\ BkQuiet /\ SfQuiet /\ FdQuiet /\ IdQuiet
        /\ CkQuiet /\ CcQuiet

InitConcurrent ==
    CcInit /\ DlQuiet /\ UpQuiet /\ BkQuiet /\ SfQuiet /\ FdQuiet /\ IdQuiet
        /\ CkQuiet /\ PdQuiet

InitCollect ==
    CkInit /\ DlQuiet /\ UpQuiet /\ BkQuiet /\ SfQuiet /\ FdQuiet /\ IdQuiet
        /\ PdQuiet /\ CcQuiet

SpecDownload ==
    InitDownload
    /\ [][DlNext /\ UNCHANGED <<upVars, bkVars, sfVars, fdVars, idVars, ckVars, pdVars, ccVars>>]_vars

\* a call that has started takes its next step: the code is sequential and
\* every request to the store is answered
DlRun ==
    (DlList \/ DlNoContents \/ DlSkip \/ DlGet \/ DlNextPage \/ DlReturn)
        /\ UNCHANGED <<upVars, bkVars, sfVars, fdVars, idVars, ckVars, pdVars, ccVars>>

\* the listings of the calls whose end is checked: one, two or three pages
\* of keys under a/, a page without key among them
LiveStores ==
    LET k1 == <<"a", "/", "b">>
        k2 == <<"a", "/", "b", "/", "b">>
        k3 == <<"a", "/", "b", "b">>
    IN  {<< <<>> >>, << <<k1>> >>, << <<k1, k2>> >>, << <<k1>>, <<k3>> >>,
         << <<k1>>, <<>> >>, << <<k1>>, <<k2>>, <<k3>> >>}

InitDownloadLive ==
    /\ prd_prefix = <<"a", "/">>
    /\ store \in LiveStores
    /\ prd_items = [isNone |-> TRUE, terms |-> <<>>]
    /\ request_payer = FALSE
    /\ bucket_name = "ewoc-prd"
    /\ files \in InitialFiles
    /\ DlIdle
    /\ UpQuiet /\ BkQuiet /\ SfQuiet /\ FdQuiet /\ IdQuiet /\ CkQuiet
        /\ PdQuiet /\ CcQuiet

SpecDownloadLive ==
    InitDownloadLive
    /\ [][DlNext
            /\ UNCHANGED <<upVars, bkVars, sfVars, fdVars, idVars, ckVars, pdVars, ccVars>>]_vars
    /\ WF_vars(DlRun)

SpecUpload ==
    InitUpload
    /\ [][UpNext /\ UNCHANGED <<dlVars, bkVars, sfVars, fdVars, idVars, ckVars, pdVars, ccVars>>]_vars

SpecBucket ==
    InitBucket
    /\ [][BkNext /\ UNCHANGED <<dlVars, upVars, sfVars, fdVars, idVars, ckVars, pdVars, ccVars>>]_vars

SpecSafe ==
    InitSafe
    /\ [][SfNext /\ UNCHANGED <<dlVars, upVars, bkVars, fdVars, idVars, ckVars, pdVars, ccVars>>]_vars

SpecFind ==
    InitFind
    /\ [][FdNext /\ UNCHANGED <<dlVars, upVars, bkVars, sfVars, idVars, ckVars, pdVars, ccVars>>]_vars

SpecPrdId ==
    InitPrdId
    /\ [][IdNext
            /\ UNCHANGED <<dlVars, upVars, bkVars, sfVars, fdVars, ckVars,
                         pdVars, ccVars>>]_vars

SpecCollect ==
    InitCollect
    /\ [][CkNext
            /\ UNCHANGED <<dlVars, upVars, bkVars, sfVars, fdVars, idVars,
                         pdVars, ccVars>>]_vars

SpecProvider ==
    InitProvider
    /\ [][PdNext
            /\ UNCHANGED <<dlVars, upVars, bkVars, sfVars, fdVars, idVars,
                         ckVars, ccVars>>]_vars

SpecConcurrent ==
    InitConcurrent
    /\ [][CcNext
            /\ UNCHANGED <<dlVars, upVars, bkVars, sfVars, fdVars, idVars,
                         ckVars, pdVars>>]_vars

(***************************************************************************)
(* Claims about _download_prd                                              *)
(***************************************************************************)
GetKeys == {gets[i].Key : i \in 1..Len(gets)}

\* C1: a call that follows a call that returned without error, with the same
\* prefix, destination and filter and the same listing, issues no
\* download_file request and leaves every local file as it was.
C1_Idempotent ==
    (calls >= 2 /\ prev_ok) => (gets = <<>> /\ files = prev_files)

\* the second call went through a listing whose first call fetched files
C1_Witness ==
    /\ calls = 2 /\ prev_ok /\ pc = "done"
    /\ Len(processed) >= 2
    /\ \E p \in DOMAIN files : files[p] # OldContent

\* C2: the keys are gone through once each, in the order of the pages and
\* of the keys inside a page, and every page after the first is requested
\* with the continuation token of the response before it.
C2_PageOrder ==
    /\ Len(processed) <= Len(Flatten(store))
    /\ processed = Sub(Flatten(store), 1, Len(processed))
    /\ pc = "done" => processed = Flatten(store)
    /\ \A j \in 1..Len(requests) :
         IF j = 1 THEN requests[j].token = 0
         ELSE /\ responses[j - 1].hasNext
              /\ requests[j].token = responses[j - 1].NextContinuationToken

\* a call returned after two pages that hold keys
C2_Witness ==
    /\ pc = "done" /\ Len(requests) = 2
    /\ store[1] # <<>> /\ store[2] # <<>>
    /\ Len(processed) = MaxListed

\* C3: a response without "Contents" makes the call raise EOBucketException
\* with the prefix, the bucket name and that response; the call never goes on
\* or returns after such a response.
C3_MissingContentsRaises ==
    \A i \in 1..Len(responses) :
        ~responses[i].hasContents =>
            /\ i = Len(responses)
            /\ pc \in {"iter", "raised"}
            /\ pc = "raised" =>
                 exc = [type |-> "EOBucketException",
                        prd_prefix |-> prd_prefix,
                        response |-> responses[i],
                        bucket_name |-> bucket_name]

\* the second page of a listing came without "Contents"
C3_Witness ==
    /\ pc = "raised" /\ exc.type = "EOBucketException"
    /\ Len(responses) = 2 /\ Len(processed) >= 1

NotDirMarker(k) == k[Len(k)] # Slash

MatchesFilter(k) ==
    prd_items.isNone
        \/ \E i \in 1..Len(prd_items.terms) :
             \E j \in 1..Len(k) :
                /\ j + Len(prd_items.terms[i]) - 1 <= Len(k)
                /\ \A n \in 1..Len(prd_items.terms[i]) :
                      k[j + n - 1] = prd_items.terms[i][n]

LastSlash(s) ==
    IF \E i \in 1..Len(s) : s[i] = Slash
    THEN CHOOSE i \in 1..Len(s) :
            s[i] = Slash /\ \A j \in (i + 1)..Len(s) : s[j] # Slash
    ELSE 0

\* C5 as stated: the destination is the destination directory joined with the
\* key without the prefix, whatever the prefix.
C5_Original ==
    \A i \in 1..Len(gets) :
        /\ StartsWith(gets[i].Key, prd_prefix)
        /\ gets[i].Filename =
             PathJoin(out_dirpath,
                      Sub(gets[i].Key, Len(prd_prefix) + 1, Len(gets[i].Key)))

\* C5: the destination is the destination directory joined with the key
\* without the part of the prefix that ends at the prefix's last "/"; this is
\* the key without the prefix when the prefix ends with "/".
C5_Destination ==
    \A i \in 1..Len(gets) :
        /\ StartsWith(gets[i].Key, prd_prefix)
        /\ gets[i].Filename =
             PathJoin(out_dirpath,
                      Sub(gets[i].Key, LastSlash(prd_prefix) + 1,
                          Len(gets[i].Key)))
        /\ EndsWith(prd_prefix, <<Slash>>) =>
             gets[i].Filename =
                PathJoin(out_dirpath,
                         Sub(gets[i].Key, Len(prd_prefix) + 1,
                             Len(gets[i].Key)))

\* a key was transferred into a subdirectory under a prefix without final "/"
C5_Witness ==
    /\ gets # <<>> /\ ~EndsWith(prd_prefix, <<Slash>>)
    /\ Len(gets[1].Filename) > Len(out_dirpath) + 1

MatchingFiles ==
    {p \in DOMAIN local_tree :
        /\ ~local_tree[p].isDir
        /\ file_suffix.isNone
             \/ /\ Len(Last(p)) >= Len(file_suffix.s)
                /\ \A n \in 1..Len(file_suffix.s) :
                      Last(p)[Len(Last(p)) - Len(file_suffix.s) + n] =
                         file_suffix.s[n]}

RECURSIVE SumSizes(_)
SumSizes(S) ==
    IF S = {} THEN 0
    ELSE LET p == CHOOSE x \in S : TRUE
         IN  local_tree[p].size + SumSizes(S \ {p})

\* C8: a _upload_prd call that returned has uploaded every regular file of
\* the directory that matches the suffix filter once, to the key
\* object_prefix/relative path, has uploaded no directory, and returns the
\* number of uploaded files and the sum of their sizes.
C8_UploadComplete ==
    (up_op = "prd" /\ up_pc = "done") =>
        /\ Len(puts) = Cardinality(MatchingFiles)
        /\ \A p \in MatchingFiles :
              \E i \in 1..Len(puts) :
                 /\ puts[i].ok
                 /\ puts[i].Filename = PrdDirpath \o p
                 /\ puts[i].Key = object_prefix \o <<Slash>> \o JoinSlash(p)
        /\ up_result[1] = Len(puts)
        /\ up_result[2] = SumSizes(MatchingFiles)

\* a returned call went over a directory that matches the suffix, uploaded
\* a file in a subdirectory and left a file out
C8_Witness ==
    /\ up_op = "prd" /\ up_pc = "done"
    /\ ~file_suffix.isNone
    /\ \E i \in 1..Len(paths) : local_tree[paths[i]].isDir
    /\ \E i \in 1..Len(puts) : Len(puts[i].Filename) = 3
    /\ up_result[2] > up_result[1]

(***************************************************************************)
(* Claims about the bucket handles                                         *)
(***************************************************************************)
ClassOfId(i) == ctors[i].cls

\* C6: every list, download or upload request sent through an EWoC or DIAS
\* bucket handle comes after a head_bucket request of that handle's
\* constructor that succeeded; a constructor whose head_bucket failed raised
\* ValueError and returned no handle.
C6_HeadCheckFirst ==
    /\ \A i \in 1..Len(events) :
         (events[i].op # "head_bucket"
             /\ ClassOfId(events[i].id) \in PrivateClasses) =>
            \E j \in 1..(i - 1) :
               /\ events[j].id = events[i].id
               /\ events[j].op = "head_bucket"
               /\ events[j].ok
    /\ \A c \in 1..Len(ctors) :
         (ctors[c].cls \in PrivateClasses /\ ctors[c].head # "ok") =>
            /\ ctors[c].result = "ValueError"
            /\ \A h \in handles : h.id # c

\* a constructor failed on its head_bucket, another one passed and its
\* handle sent a request
C6_Witness ==
    /\ \E c \in 1..Len(ctors) :
          ctors[c].cls \in PrivateClasses /\ ctors[c].head = "403"
    /\ \E i \in 1..Len(events) :
          /\ events[i].op = "upload"
          /\ ClassOfId(events[i].id) \in PrivateClasses

(***************************************************************************)
(* Claims about the SAFE reconstruction                                    *)
(***************************************************************************)
Raised == sf_pc = "raised"

\* C9: whenever the reconstruction has failed, the flat source directory is
\* still there and holds every file it held when the call started.
C9_FlatIntactAfterFailure ==
    Raised => (flat_exists /\ flat_files = flat_init)

\* C10: after aws_to_safe has raised, for whatever reason, the SAFE target
\* directory does not exist; stated for the calls that found no SAFE
\* directory when they started.
C10_NoSafeDirAfterFailure ==
    (Raised /\ ~safe_init) => ~safe_exists

\* C11: when aws_to_safe has failed on an S1 product whose flat directory
\* held no productInfo.json, the exception is S1SafeConversionError, every
\* file of the flat directory is where it was and there is no SAFE
\* directory, whether or not one was there when the call started.
C11_MissingSidecar ==
    (Raised /\ sf_op = "aws_to_safe" /\ prd_family = "S1"
            /\ ~SidecarExists(flat_init))
        => /\ sf_exc.type = "S1SafeConversionError"
           /\ flat_files = flat_init
           /\ ~safe_exists

\* the paths the manifest of the product declares: the keys of filenameMap
\* (S1), the fileLocation hrefs of manifest.safe (S2 L1C)
Declared ==
    IF prd_family = "S1"
    THEN {filename_map[i].target : i \in 1..Len(filename_map)}
    ELSE Range(manifest)

\* a reconstruction returned the SAFE directory, which it had created
Reconstructed == sf_pc = "done" /\ sf_result = "safe" /\ ~safe_init

\* C12: after a successful reconstruction into a new SAFE directory, the
\* files of the SAFE tree are exactly the declared paths and its
\* directories are exactly the directories these paths lie in.
C12_ExactlyDeclared ==
    Reconstructed
        => /\ safe_files = Declared
           /\ safe_dirs = UNION {ParentDirs(p) : p \in Declared}

(***************************************************************************)
(* Claims about the folder discovery                                       *)
(***************************************************************************)
ListedNames == {FolderName(folder_list[i]) : i \in 1..Len(folder_list)}

\* the discovery has nothing to choose from
ZeroCandidates ==
    IF L2aCogs(fd_cls)
    THEN \A n \in ListedNames : ~Contains(n, ProductDate)
    ELSE folder_list = <<>>

\* the requests that fetch objects, all but the listing of the folders
TransfersSent ==
    {i \in 1..Len(fd_requests) : fd_requests[i].op # "list_objects_v2"}

\* C13: once the folders are listed and there is no candidate among them,
\* the retrieval raises and starts no transfer.
C13_NoCandidateFails ==
    (fd_pc \in {"get", "done", "raised"} /\ ZeroCandidates)
        => (fd_pc = "raised" /\ TransfersSent = {})

\* C15: for a non-empty list of sequence folders the folder number found is
\* the name of a listed folder, no listed folder has a greater integer
\* value, and the tile prefix of the transfers is that folder.
C15_GreatestFolderNumber ==
    (fd_pc \in {"get", "done"} /\ ~L2aCogs(fd_cls) /\ folder_list # <<>>)
        => /\ found \in ListedNames
           /\ \A n \in ListedNames : IntOf(n) <= IntOf(found)
           /\ \A i \in TransfersSent :
                 \/ fd_requests[i].Prefix = ProductsPrefix
                 \/ \E j \in 1..Len(folder_list) :
                       /\ FolderName(folder_list[j]) = found
                       /\ StartsWith(fd_requests[i].Prefix, folder_list[j])

\* C15 witness: the store lists folder 9 before folder 10 and the product
\* is fetched from folder 10.
C15_Witness ==
    /\ fd_pc = "done"
    /\ ~L2aCogs(fd_cls)
    /\ Len(folder_list) = 2
    /\ FolderName(folder_list[1]) = <<"9">>
    /\ FolderName(folder_list[2]) = <<"1", "0">>
    /\ found = <<"1", "0">>
    /\ \E i \in TransfersSent :
          fd_requests[i].Prefix = <<"t", "/", "1", "0", "/">>

(***************************************************************************)
(* Claims about the constructors of the AWS buckets                        *)
(***************************************************************************)
AwsClasses == {"AWSEOBucket", "AWSCopDEMBucket"}

\* C14: every construction of an AWS bucket with a bucket outside the
\* supported list, or of a Copernicus DEM bucket with a resolution other
\* than 1s and 3s, has raised ValueError, has returned no object and has
\* sent no request.
C14_UnsupportedRaises ==
    \A i \in 1..Len(ctors) :
        (ctors[i].cls \in AwsClasses /\ ctors[i].bucket \notin SupportedBucket)
            => /\ ctors[i].result = "ValueError"
               /\ \A h \in handles : h.id # ctors[i].id
               /\ \A j \in 1..Len(events) : events[j].id # ctors[i].id


(***************************************************************************)
(* Claims about the product identifiers                                    *)
(***************************************************************************)
\* the identifier without a ".SAFE" at its end
StripSafe(id) ==
    IF EndsWith(id, <<".", "S", "A", "F", "E">>) THEN Sub(id, 1, Len(id) - 5) ELSE id

\* the identifier has no suffix
NoSuffix(id) == FirstOfChar(id, ".") = 0

\* t is a date and time written exactly as %Y%m%dT%H%M%S
StrictDateTime(t) ==
    /\ Len(t) = 15
    /\ t[9] = "T"
    /\ AllDigits(Sub(t, 1, 8)) /\ AllDigits(Sub(t, 10, 15))
    /\ Strptime(t, "%Y%m%dT%H%M%S").ok

\* t is a date written exactly as %Y%m%d
StrictDate(t) == Len(t) = 8 /\ AllDigits(t) /\ Strptime(t, "%Y%m%d").ok

\* the grammar of an S1 identifier: nine tokens, each of its declared form
S1Grammar(id) ==
    LET e == SplitOn(StripSafe(id), "_")
    IN  /\ Len(e) = 9
        /\ e[1] \in {<<"S", "1", "A">>, <<"S", "1", "B">>}
        /\ e[2] \in {<<"S", "M">>, <<"I", "W">>, <<"E", "W">>, <<"W", "V">>}
        /\ Len(e[3]) = 4
        /\ Sub(e[3], 1, 3) \in {<<"S", "L", "C">>, <<"G", "R", "D">>, <<"O", "C", "N">>}
        /\ e[3][4] \in {"F", "H", "M"}
        /\ Len(e[4]) = 4
        /\ e[4][1] \in {"1", "2"}
        /\ e[4][2] \in {"S", "A"}
        /\ Sub(e[4], 3, 4) \in {<<"S", "H">>, <<"S", "V">>, <<"D", "H">>, <<"D", "V">>}
        /\ StrictDateTime(e[5])
        /\ StrictDateTime(e[6])
        /\ Len(e[7]) = 6 /\ AllDigits(e[7])
        /\ Len(e[8]) = 6
        /\ Len(e[9]) = 4

\* the grammar of an S2 identifier
S2Grammar(id) ==
    LET e == SplitOn(StripSafe(id), "_")
    IN  /\ Len(e) = 7
        /\ e[1] \in {<<"S", "2", "A">>, <<"S", "2", "B">>}
        /\ e[2] \in {<<"M", "S", "I", "L", "1", "C">>, <<"M", "S", "I", "L", "2", "A">>}
        /\ StrictDateTime(e[3])
        /\ Len(e[5]) = 4 /\ AllDigits(Sub(e[5], 2, 4))
        /\ IntOf(Sub(e[5], 2, 4)) >= 1 /\ IntOf(Sub(e[5], 2, 4)) <= 143
        /\ Len(e[6]) = 6
        /\ Len(e[7]) = 15

\* the grammar of an L8C2 identifier
L8Grammar(id) ==
    LET e == SplitOn(StripSafe(id), "_")
    IN  /\ Len(e) = 7
        /\ Len(e[1]) = 4 /\ e[1][4] \in {"8", "9"}
        /\ e[2] \in {<<"L", "2", "S", "P">>, <<"L", "2", "S", "R">>}
        /\ StrictDate(e[4])
        /\ StrictDate(e[5])
        /\ e[6] = <<"0", "2">>
        /\ e[7] \in {<<"T", "1">>, <<"T", "2">>}

Grammar(family, id) ==
    CASE family = "S1" -> S1Grammar(id)
      [] family = "S2" -> S2Grammar(id)
      [] OTHER -> L8Grammar(id)

\* C16: for an S1 identifier, with or without ".SAFE", that does not match
\* the grammar, the constructor raises and is_valid returns False without
\* raising.
C16_MalformedIsInvalid ==
    (/\ id_family = "S1"
     /\ id_valid # "NotRun"
     /\ NoSuffix(StripSafe(prd_id))
     /\ ~S1Grammar(prd_id))
        => (S1PrdIdInfo(prd_id).exc # "None" /\ id_valid = "False")

\* C17: a descriptor the constructor returns for an identifier without
\* suffix comes from an identifier in which every token has its declared
\* form; otherwise the constructor raises.
C17_DescriptorIsValid ==
    (id_info.exc = "None" /\ NoSuffix(prd_id))
        => Grammar(id_family, prd_id)

\* the sizes of an S2 identifier: seven tokens, five characters after the
\* first of the tile token, a discriminator of fifteen, level L1C or L2A
S2Sized(id) ==
    LET e == SplitOn(BeforeDot(id), "_")
    IN  /\ Len(e) = 7
        /\ Len(SliceFrom(e[6], 1)) = 5
        /\ Len(e[7]) = 15
        /\ SliceFrom(e[2], 3) \in {<<"L", "1", "C">>, <<"L", "2", "A">>}

\* C18: a descriptor of an S2 identifier has a tile token carrying exactly
\* five characters after its first, a discriminator of fifteen characters
\* and level L1C or L2A; an identifier violating one of
\* these makes is_valid return False.
C18_S2Sizes ==
    /\ (id_family = "S2" /\ id_info.exc = "None") => S2Sized(prd_id)
    /\ (id_family = "S2" /\ id_valid # "NotRun" /\ ~S2Sized(prd_id))
          => id_valid = "False"

\* C19: for an identifier s without suffix, the constructor succeeds on
\* s + ".SAFE" exactly when it succeeds on s, and then with the same fields.
C19_SafeSuffixStripped ==
    (NoSuffix(prd_id) /\ id_safe.exc # "NotRun")
        => LET info == PrdIdInfo(id_family, prd_id)
           IN  /\ (id_safe.exc = "None") <=> (info.exc = "None")
               /\ (id_safe.exc = "None" /\ info.exc = "None")
                     => id_safe.fields = info.fields

\* the key prefix the layout gives for a well-formed S1 identifier
NoLeadingZero(t) == IF t[1] = "0" THEN Sub(t, 2, Len(t)) ELSE t

S1LayoutPrefix(id) ==
    LET e == SplitOn(StripSafe(id), "_")
    IN  Sub(e[3], 1, 3) \o <<"/">> \o Sub(e[5], 1, 4) \o <<"/">>
            \o NoLeadingZero(Sub(e[5], 5, 6)) \o <<"/">>
            \o NoLeadingZero(Sub(e[5], 7, 8)) \o <<"/">>
            \o e[2] \o <<"/">> \o Sub(e[4], 3, 4) \o <<"/">>
            \o StripSafe(id) \o <<"/">>

\* C20: for a well-formed S1 identifier, with or without ".SAFE", the key
\* prefix of AWSS1Bucket.download_prd is
\* productType/year/month/day/beamMode/polarisation/idWithoutSuffix/ with
\* month and day without leading zeros.
C20_S1KeyPrefix ==
    (id_family = "S1" /\ id_prefix.exc # "NotRun" /\ S1Grammar(prd_id))
        => (id_prefix.exc = "None" /\ id_prefix.prefix = S1LayoutPrefix(prd_id))

\* C20 witness: the prefix of
\* S1A_IW_GRDH_1SDV_20210708T060105_20210708T060130_038682_04908E_8979.SAFE
C20_Witness ==
    /\ id_family = "S1"
    /\ prd_id = Join(S1Base, <<"_">>) \o <<".", "S", "A", "F", "E">>
    /\ id_prefix.exc = "None"
    /\ id_prefix.prefix =
          <<"G", "R", "D", "/", "2", "0", "2", "1", "/", "7", "/", "8", "/",
            "I", "W", "/", "D", "V", "/">>
              \o Join(S1Base, <<"_">>) \o <<"/">>


(***************************************************************************)
(* Claims about _upload_prd on a directory without matching file           *)
(***************************************************************************)
\* C29: a _upload_prd call on a directory that has no regular file matching
\* the suffix filter ends by returning, has sent no upload, and returns a
\* number of files of 0 and a total size of 0.
C29_NothingToUpload ==
    (up_op = "prd" /\ up_pc \in {"done", "raised"} /\ MatchingFiles = {})
        => /\ puts = <<>>
           /\ up_pc = "done"
           /\ up_result[1] = 0
           /\ up_result[2] = 0


AllKeys == UNION {Range(ck_pages[i]) : i \in 1..Len(ck_pages)}

\* the directory a key lies in: "/" and the key up to its last name
KeyDir(k) ==
    LET names == NonEmpty(Split(k))
    IN  <<Slash>> \o JoinSlash(Sub(names, 1, Len(names) - 1))

\* a page of the store has no object
EmptyPage == \E i \in 1..Len(ck_pages) : ck_pages[i] = <<>>

\* C26: when a page of the listing has no object the writer raises
\* ValueError and writes no file; when every page has objects the set
\* _list_prds_key returns is the set of the directories of all keys of all
\* pages, and one request was sent per page.
C26_ListPrdsKey ==
    /\ (ck_pc \in {"raised", "rows", "csv", "done"} /\ tile_prefix # <<>>
          /\ EmptyPage)
          => /\ ck_pc = "raised"
             /\ ck_exc.type = "ValueError"
             /\ ck_csv = <<"none">>
    /\ (ck_pc \in {"rows", "csv", "done"})
          => /\ ~EmptyPage
             /\ prds_key = {KeyDir(k) : k \in AllKeys}
             /\ Len(ck_requests) = Len(ck_pages)
    /\ ck_pc = "raised" => ck_csv = <<"none">>

\* C26 witness: two pages with objects of two directories, a file written
C26_Witness ==
    /\ ck_pc = "done"
    /\ Len(ck_pages) = 2
    /\ Cardinality(prds_key) = 2
    /\ Cardinality(AllKeys) = 3
    /\ ck_csv # <<"none">>

\* C26 witness of the failure: the second page has no object
C26_WitnessRaise ==
    /\ ck_pc = "raised"
    /\ Len(ck_pages) = 2 /\ ck_pages[1] # <<>> /\ ck_pages[2] = <<>>
    /\ Len(ck_requests) = 2
    /\ prds_key # {}


\* a response without NextContinuationToken was received in the current call
LastPageReceived ==
    /\ responses # <<>>
    /\ ~Last(responses).hasNext
    /\ calls' = calls

\* C27 as stated: a call that has started ends, and once a response without
\* NextContinuationToken was received the call issues no further list request
\* and no further download.
C27_Original ==
    /\ (pc \in {"list", "iter"}) ~> (pc \in {"done", "raised"})
    /\ [][LastPageReceived => (requests' = requests /\ gets' = gets)]_vars

\* C27: a call that has started ends by returning or raising; once a
\* response without NextContinuationToken was received the call issues no
\* further list request, and every download it still issues is of a key of
\* that response.
C27_Terminates ==
    /\ (pc \in {"list", "iter"}) ~> (pc \in {"done", "raised"})
    /\ [][LastPageReceived =>
            /\ requests' = requests
            /\ gets' # gets =>
                 /\ Len(gets') = Len(gets) + 1
                 /\ Last(gets').Key \in Range(Last(responses).Contents)]_vars

\* C27 witness: a call over two pages has returned after a download of a
\* key of the second page
C27_Witness ==
    /\ pc = "done"
    /\ Len(responses) = 2
    /\ Len(requests) = 2
    /\ gets # <<>>
    /\ Last(gets).Key \in Range(responses[2].Contents)

(***************************************************************************)
(* Claims about the provider download operations                           *)
(***************************************************************************)
\* C22: AWSS2L1CBucket.download_prd honours safe_format: a call with
\* safe_format = False does not run the SAFE conversion, it returns the flat
\* product directory, which is still there with its files, and it makes no
\* SAFE directory.
C22_SafeFormatHonoured ==
    (sf_op = "AWSS2L1CBucket.download_prd" /\ ~safe_format)
        => /\ sf_pc \notin {"dispatch", "s2_parse", "rmtree", "raised"}
           /\ sf_pc = "done" => /\ sf_result = "flat"
                                /\ flat_exists
                                /\ flat_files = flat_init
                                /\ safe_exists = safe_init


\* the descriptor constructor of the current call raised
ParseFailed == pd_info.exc \notin {"None", "NotRun"}

\* C28: a provider download operation (download_prd of the AWS S1, S2 and
\* L8 buckets, download_s1_prd and download_s2_prd of the DIAS bucket) given
\* an identifier that fails parsing raises without any network request and
\* leaves the destination root as it was: no product directory and no
\* 'product' or 'tile' sub-directory is made.
C28_ParseFailureNoEffect ==
    (pd_op \in PrdOps /\ pd_pc = "raised" /\ ParseFailed)
        => /\ pd_net = <<>>
           /\ pd_dirs = pd_start.dirs
           /\ pd_files = pd_start.files

\* the listing of the product met a page without "Contents"
ListingError ==
    /\ pd_info.exc = "None"
    /\ \E i \in 1..Len(pd_pages) : pd_pages[i] = <<>>

\* C30: when AWSS1Bucket.download_prd meets a page without 'Contents', on
\* the first page or on a later one, it raises AWSDownloadError and the
\* product directory does not exist afterwards, also when files of earlier
\* pages were downloaded.
C30_ListingErrorCleansUp ==
    (pd_op = "AWSS1Bucket.download_prd" /\ pd_pc = "raised" /\ ListingError)
        => /\ pd_exc = "AWSDownloadError"
           /\ OutDirpath(pd_op, pd_id) \notin pd_dirs
           /\ Below(pd_files, OutDirpath(pd_op, pd_id)) = {}

\* '{P}{t[:3]}_00_{t[3:]}_00_DEM' with P as given
LayoutName(P, t) ==
    P \o Slice(t, 0, 3) \o <<"_", "0", "0", "_">> \o SliceFrom(t, 3) \o <<"_", "0", "0", "_", "D", "E", "M">>

LayoutP(resolution) ==
    IF resolution = "1s" THEN <<"C", "o", "p", "e", "r", "n", "i", "c", "u", "s", "_", "D", "S", "M", "_", "C", "O", "G", "_", "1", "0", "_">>
    ELSE <<"C", "o", "p", "e", "r", "n", "i", "c", "u", "s", "_", "D", "S", "M", "_", "C", "O", "G", "_", "3", "0", "_">>

LayoutPSen2cor(resolution) ==
    IF resolution = "1s" THEN <<"C", "o", "p", "e", "r", "n", "i", "c", "u", "s", "_", "D", "S", "M", "_", "1", "0", "_">> ELSE <<"C", "o", "p", "e", "r", "n", "i", "c", "u", "s", "_", "D", "S", "M", "_", "3", "0", "_">>

LayoutKey(resolution, t) ==
    LayoutName(LayoutP(resolution), t) \o <<Slash>>
        \o LayoutName(LayoutP(resolution), t) \o <<".", "t", "i", "f">>

\* C23: for every tile id t and resolution 1s or 3s, the key download_tiles
\* asks for is the key _compute_key returns,
\* '{P}{t[:3]}_00_{t[3:]}_00_DEM/{P}{t[:3]}_00_{t[3:]}_00_DEM.tif' with P
\* 'Copernicus_DSM_COG_10_' for 1s and 'Copernicus_DSM_COG_30_' for 3s, one
\* request per tile id in the order given; the local file is named like the
\* object, with '_COG_' replaced by '_' only when to_sen2cor is set; and
\* to_gdal_path returns '/vsis3/{bucket}/{key}'.
C23_CopdemKey ==
    LET res == pd_args.resolution
        tiles == pd_args.tiles
    IN  /\ (pd_op = "AWSCopDEMBucket.download_tiles" /\ pd_pc = "done")
            => /\ Len(pd_net) = Len(tiles)
               /\ \A i \in 1..Len(tiles) :
                    /\ pd_net[i].op = "download_file"
                    /\ pd_net[i].Bucket = CopDEMBucketOf(res)
                    /\ pd_net[i].Key = LayoutKey(res, tiles[i])
                    /\ pd_net[i].Key = ComputeKey(res, tiles[i])
                    /\ pd_net[i].Filename =
                         << LayoutName(IF pd_args.to_sen2cor
                                       THEN LayoutPSen2cor(res)
                                       ELSE LayoutP(res), tiles[i])
                              \o <<".", "t", "i", "f">> >>
        /\ (pd_op = "AWSCopDEMBucket.to_gdal_path" /\ pd_pc = "done")
            => pd_result = <<"/vsis3/", CopDEMBucketOf(res), "/">>
                              \o LayoutKey(res, tiles[1])

\* C23 witness: two tiles were fetched from the 3s bucket for sen2cor
C23_Witness ==
    /\ pd_op = "AWSCopDEMBucket.download_tiles"
    /\ pd_pc = "done"
    /\ pd_args.resolution = "3s"
    /\ pd_args.to_sen2cor
    /\ Len(pd_net) = 2
    /\ pd_net[1].Key # pd_net[2].Key

\* C23 witness: to_gdal_path returned the path of a tile of the 1s bucket
C23_WitnessGdal ==
    /\ pd_op = "AWSCopDEMBucket.to_gdal_path"
    /\ pd_pc = "done"
    /\ pd_args.resolution = "1s"
    /\ pd_result # <<>>

\* C21: the derivation of the key prefixes is pure for every provider and
\* family, the tile prefix of the legacy AWS S2 layout and the prefix of the
\* L2A COG layout included: two derivations for the same identifier and
\* options give the same prefixes, whatever happened to the store or
\* elsewhere between them.
C21_PrefixPure ==
    (pd_prefix # <<>> /\ pd_prev_prefix # <<>>) => pd_prefix = pd_prev_prefix


(***************************************************************************)
(* Claims about concurrent calls of _download_prd                          *)
(***************************************************************************)
\* the events of process p among the first n events
EventsOf(p, n) == {i \in 1..n : cc_events[i].proc = p}

\* C25: the skip-if-exists test of downloadPrefix is a check followed by an
\* act, with nothing that holds the destination in between: every
\* download_file of a process follows, as that process's previous step, its
\* own test that found the destination absent, whatever the other call did
\* to the destination since; so two concurrent calls on the same prefix and
\* destination have an interleaving in which both find the destination of
\* one key absent, both fetch the key and both write the same path.
C25_CheckThenAct ==
    \A j \in 1..Len(cc_events) :
        cc_events[j].op = "get"
            => \E i \in EventsOf(cc_events[j].proc, j - 1) :
                 /\ \A k \in EventsOf(cc_events[j].proc, j - 1) : k <= i
                 /\ cc_events[i].op = "exists"
                 /\ cc_events[i].path = cc_events[j].path
                 /\ ~cc_events[i].found

\* C25 witness: both processes tested the same destination and found it
\* absent, then both fetched the key and wrote that path; the second write
\* went over the file of the first
C25_Witness ==
    \E i1, i2, j1, j2 \in 1..Len(cc_events) :
        /\ i1 < i2 /\ i2 < j1 /\ j1 < j2
        /\ cc_events[i1].op = "exists" /\ ~cc_events[i1].found
        /\ cc_events[i2].op = "exists" /\ ~cc_events[i2].found
        /\ cc_events[j1].op = "get" /\ cc_events[j2].op = "get"
        /\ cc_events[i1].proc # cc_events[i2].proc
        /\ cc_events[j1].proc # cc_events[j2].proc
        /\ cc_events[i1].path = cc_events[i2].path
        /\ cc_events[j1].path = cc_events[i1].path
        /\ cc_events[j2].path = cc_events[i1].path
        /\ cc_events[j2].found


====
